---- MODULE Spec2Model ----
(***************************************************************************)
(* Vehicle-mapping core of dora-examples: ICP odometry (batch and          *)
(* streaming), pose graph, loop detector and the pipeline driver.          *)
(*                                                                         *)
(* Lengths are integers in units of 0.25 m (so 0.75 m is 3 units and       *)
(* norms are compared squared).  Rotations are yaw quarter turns, which    *)
(* keeps SE(3) composition exact on the integer grid.  Fitness values are  *)
(* integers in tenths (0.3 is 3, 1.0 is 10).  The Open3D ICP solver and    *)
(* the GTSAM optimizer are external: their results are inputs.             *)
(***************************************************************************)
EXTENDS Integers, Sequences, FiniteSets, TLC

VARIABLES
    \* run_pipeline.main and SimpleICPOdometry.run_on_sequence
    pc, args_loop_closure, point_clouds, poses, world_clouds, fits,
    exit_code, optimized_poses, icp_log,
    \* PoseGraphOptimizer
    graph, initial_estimates, pose_ids, n_odom_factors, n_loop_factors,
    bpc, bi, odom_poses, opt_status, call_log,
    \* LoopDetector
    min_frame_gap, distance_threshold, icp_fitness_threshold,
    ld_poses, ld_clouds, icp_fit, candidates, verified_loops,
    \* icp_odometry_op.Operator and its event queue / outputs
    op_poses, op_world_clouds, op_frame_count, op_events, op_out, op_alive,
    \* MapBuilder (batch) and the files written to the output directory
    global_map, n_frames_added, voxel_size, map_voxel_size, remove_outliers,
    global_map_pre_finalize, added, files,
    \* map_builder_op.Operator, its input streams and outputs
    frame_count, pending_cloud, pending_pose, map_saved, downsample_interval,
    mb_frames, mb_nc, mb_np, mb_seq_done, mb_out, mb_alive,
    \* WaypointExtractor and waypoint_extractor_op.Operator
    min_distance, z_threshold, simplify, simplify_tolerance, waypoints,
    dp_indices, wo_poses, min_spacing, epsilon, waypoints_extracted, wo_out,
    wo_alive,
    \* the window_size argument of run_on_sequence / attribute of the
    \* odometry operator
    window_size,
    \* PCDLoader: its configuration, the frame given to preprocess and
    \* what preprocess returned
    loader, pp_points, pp_result,
    \* _douglas_peucker as it runs: the caller's arguments, the call stack,
    \* the value being returned and the state of the run
    dp_kind, dp_points, dp_tolerance, dp_stack, dp_ret, dp_status,
    \* detect_and_verify: the initial guess handed to ICP for each candidate
    loop_seeds,
    \* building the ICP target: which odometry builds it, the number of
    \* points of each world cloud, and the number of points each frame of
    \* the window contributed
    dec_kind, dec_sizes, dec_target,
    \* pcd_source_op.Operator: the preprocessed content of its sorted files,
    \* its state, the ticks it received and the outputs it sent
    pcd_files, current_frame, sequence_complete_sent, src_ticks, src_out,
    src_alive,
    \* the frames whose world clouds made the ICP target of each frame, in
    \* run_on_sequence and in the odometry operator
    batch_targets, op_targets

pipeVars  == <<pc, args_loop_closure, point_clouds, poses, world_clouds,
               fits, exit_code, optimized_poses>>
logVars   == <<icp_log, call_log>>
graphVars == <<graph, initial_estimates, pose_ids, n_odom_factors,
               n_loop_factors, bpc, bi, odom_poses, opt_status>>
ldCfgVars == <<min_frame_gap, distance_threshold, icp_fitness_threshold>>
ldVars    == <<ld_poses, ld_clouds, icp_fit, candidates, verified_loops>>
opVars    == <<op_poses, op_world_clouds, op_frame_count, op_events, op_out,
               op_alive>>
mapVars   == <<global_map, n_frames_added, voxel_size, map_voxel_size,
               remove_outliers, global_map_pre_finalize, added, files>>
mbVars    == <<frame_count, pending_cloud, pending_pose, map_saved,
               downsample_interval, mb_frames, mb_nc, mb_np, mb_seq_done,
               mb_out, mb_alive>>
wpVars    == <<min_distance, z_threshold, simplify, simplify_tolerance,
               waypoints, dp_indices>>
woVars    == <<wo_poses, min_spacing, epsilon, waypoints_extracted, wo_out,
               wo_alive>>
ppVars    == <<loader, pp_points, pp_result>>
dpVars    == <<dp_kind, dp_points, dp_tolerance, dp_stack, dp_ret, dp_status>>
decVars   == <<dec_kind, dec_sizes, dec_target>>
srcVars   == <<pcd_files, current_frame, sequence_complete_sent, src_ticks,
               src_out, src_alive>>
refVars   == <<batch_targets, op_targets>>
auxVars   == <<ppVars, dpVars, loop_seeds, decVars, srcVars, refVars>>
otherVars == <<mbVars, wpVars, woVars, window_size, auxVars>>
extVars   == <<mapVars, otherVars>>
vars      == <<pipeVars, logVars, graphVars, ldCfgVars, ldVars, opVars,
               extVars>>

----------------------------------------------------------------------------
\* Bounds of the model.
MaxFrames == 3
MaxEvents == 3
MaxGraph == 2
MaxCalls == 4
MaxId == 1
MaxPoses == 3
MaxPoints == 3
MaxDpPoints == 4
MaxWindowFrames == 2

\* Program constants, in model units.
expected_motion == 1
OpJumpLimit == 3
FirstFitness == 10

----------------------------------------------------------------------------
\* Rigid transforms: 4x4 matrices restricted to yaw quarter turns.

RotZ(r, v) ==
    CASE r = 0 -> v
      [] r = 1 -> <<0 - v[2], v[1], v[3]>>
      [] r = 2 -> <<0 - v[1], 0 - v[2], v[3]>>
      [] r = 3 -> <<v[2], 0 - v[1], v[3]>>

VAdd(a, b) == <<a[1] + b[1], a[2] + b[2], a[3] + b[3]>>
VSub(a, b) == <<a[1] - b[1], a[2] - b[2], a[3] - b[3]>>
Norm2(v) == v[1] * v[1] + v[2] * v[2] + v[3] * v[3]

Pose(r, t) == [r |-> r, t |-> t]
Eye4 == Pose(0, <<0, 0, 0>>)
\* A @ B
MatMul(A, B) == Pose((A.r + B.r) % 4, VAdd(RotZ(A.r, B.t), A.t))
\* np.linalg.inv
MatInv(A) == Pose((4 - A.r) % 4, RotZ((4 - A.r) % 4, <<0 - A.t[1], 0 - A.t[2], 0 - A.t[3]>>))

\* (R @ pts.T).T + t, point by point
TransformCloud(T, pts) == [k \in 1..Len(pts) |-> VAdd(RotZ(T.r, pts[k]), T.t)]

\* Frames a loader can hand over (an empty frame is legal).
Clouds == { <<>>, << <<1, 0, 0>>, <<0, 2, 1>> >> }

\* Results of o3d registration_icp: correction, fitness, inlier_rmse.
\* icp_log records what each call returned, in call order; a call that
\* raised is logged as IcpRaised.
IcpRaised == [raised |-> TRUE]
Raised(res) == "raised" \in DOMAIN res

IcpResults ==
    { [transformation |-> Eye4,                   fitness |-> 10, inlier_rmse |-> 0],
      [transformation |-> Eye4,                   fitness |-> 0,  inlier_rmse |-> 0],
      [transformation |-> Pose(0, <<1, 0, 0>>),   fitness |-> 4,  inlier_rmse |-> 1],
      [transformation |-> Pose(1, <<0, 1, 0>>),   fitness |-> 3,  inlier_rmse |-> 1],
      [transformation |-> Pose(0, <<3, 0, 0>>),   fitness |-> 3,  inlier_rmse |-> 2],
      [transformation |-> Pose(0, <<0, 4, 0>>),   fitness |-> 4,  inlier_rmse |-> 2] }

----------------------------------------------------------------------------
\* SimpleICPOdometry.run_on_sequence, lines 158-185: one loop iteration
\* after registration_icp returned res.

\* Variant: threshold of four expected steps.
BatchJumpWide(T_abs, prev) ==
    Norm2(VSub(T_abs.t, prev.t)) > (expected_motion * 4) * (expected_motion * 4)

BatchJump(T_abs, prev) ==
    Norm2(VSub(T_abs.t, prev.t)) > (expected_motion * 3) * (expected_motion * 3)

\* Variant: the step applied in the body frame of the previous pose.
BatchMotionModelBody(ps) ==
    IF Len(ps) >= 2
    THEN MatMul(ps[Len(ps)], Pose(0, VSub(ps[Len(ps)].t, ps[Len(ps) - 1].t)))
    ELSE ps[Len(ps)]

BatchMotionModel(ps) ==
    IF Len(ps) >= 2
    THEN Pose(ps[Len(ps)].r,
              VAdd(ps[Len(ps)].t, VSub(ps[Len(ps)].t, ps[Len(ps) - 1].t)))
    ELSE ps[Len(ps)]

BatchPose(ps, res) ==
    LET T_abs == MatMul(res.transformation, ps[Len(ps)])
    IN  IF BatchJump(T_abs, ps[Len(ps)]) THEN BatchMotionModel(ps) ELSE T_abs

BatchFitness(ps, res) ==
    LET T_abs == MatMul(res.transformation, ps[Len(ps)])
    IN  IF BatchJump(T_abs, ps[Len(ps)]) THEN 0 ELSE res.fitness

----------------------------------------------------------------------------
\* PoseGraphOptimizer (pose_graph.py).  graph is the NonlinearFactorGraph as
\* the sequence of factors in insertion order; initial_estimates is the
\* gtsam.Values.

Factor(kind, from, to, rel, noise) ==
    [kind |-> kind, from |-> from, to |-> to, rel |-> rel, noise |-> noise]

\* Variant: the prior is not added.
add_prior_dropped(g, pose_id, pose) == g

add_prior(g, pose_id, pose) ==
    Append(g, Factor("prior", pose_id, pose_id, pose, "prior"))

add_initial_estimate(est, pose_id, pose) ==
    IF pose_id \notin DOMAIN est
    THEN [k \in DOMAIN est \cup {pose_id} |-> IF k = pose_id THEN pose ELSE est[k]]
    ELSE est

add_odometry_factor(g, id_from, id_to, relative_pose) ==
    Append(g, Factor("between", id_from, id_to, relative_pose, "odom"))

add_loop_closure(g, id_from, id_to, relative_pose) ==
    Append(g, Factor("between", id_from, id_to, relative_pose, "loop"))

\* Keys used by the factors of g.
FactorKeys(g) == UNION { {g[k].from, g[k].to} : k \in 1..Len(g) }

\* gtsam's optimizer refuses a graph with a key that has no value; on a
\* graph it accepts, the solver's result is an input of this model and is
\* taken to be the initial estimate (exact for a consistent odometry chain).
OptimizeOk(g, est) == FactorKeys(g) \subseteq DOMAIN est
optimize(g, est, ids) == [k \in ids |-> est[k]]

EmptyDict == [k \in {} |-> Eye4]

\* What a step inside build_from_odometry leaves alone.
BuildFrame ==
    /\ UNCHANGED <<pc, args_loop_closure, point_clouds, poses, world_clouds,
                   fits, exit_code>>
    /\ UNCHANGED <<logVars, ldCfgVars, ldVars, opVars, extVars>>

\* build_from_odometry, entered with odom (0-based odom[i] is odom[i + 1]).
BuildCall(odom) ==
    /\ bpc = "idle"
    /\ odom_poses' = odom
    /\ IF Len(odom) = 0
       THEN /\ optimized_poses' = EmptyDict
            /\ UNCHANGED <<graph, bpc>>
       ELSE /\ graph' = add_prior(graph, 0, odom[1])
            /\ bpc' = "init0"
            /\ UNCHANGED optimized_poses
    /\ bi' = 1
    /\ opt_status' = "none"
    /\ UNCHANGED <<initial_estimates, pose_ids, n_odom_factors, n_loop_factors>>

BuildInit0 ==
    /\ BuildFrame
    /\ bpc = "init0"
    /\ initial_estimates' = add_initial_estimate(initial_estimates, 0, odom_poses[1])
    /\ pose_ids' = pose_ids \cup {0}
    /\ bpc' = IF bi < Len(odom_poses) THEN "chain_factor" ELSE "optimize"
    /\ UNCHANGED <<graph, n_odom_factors, n_loop_factors, bi, odom_poses,
                   opt_status, optimized_poses>>

\* Variant: the chain factor is keyed one vertex ahead.
BuildChainFactorAhead ==
    /\ BuildFrame
    /\ bpc = "chain_factor"
    /\ LET T_rel == MatMul(MatInv(odom_poses[bi]), odom_poses[bi + 1])
       IN  graph' = add_odometry_factor(graph, bi, bi + 1, T_rel)
    /\ n_odom_factors' = n_odom_factors + 1
    /\ bpc' = "chain_estimate"
    /\ UNCHANGED <<initial_estimates, pose_ids, n_loop_factors, bi, odom_poses,
                   opt_status, optimized_poses>>

BuildChainFactor ==
    /\ BuildFrame
    /\ bpc = "chain_factor"
    /\ LET T_rel == MatMul(MatInv(odom_poses[bi]), odom_poses[bi + 1])
       IN  graph' = add_odometry_factor(graph, bi - 1, bi, T_rel)
    /\ n_odom_factors' = n_odom_factors + 1
    /\ bpc' = "chain_estimate"
    /\ UNCHANGED <<initial_estimates, pose_ids, n_loop_factors, bi, odom_poses,
                   opt_status, optimized_poses>>

BuildChainEstimate ==
    /\ BuildFrame
    /\ bpc = "chain_estimate"
    /\ initial_estimates' = add_initial_estimate(initial_estimates, bi, odom_poses[bi + 1])
    /\ pose_ids' = pose_ids \cup {bi}
    /\ bi' = bi + 1
    /\ bpc' = IF bi + 1 < Len(odom_poses) THEN "chain_factor" ELSE "optimize"
    /\ UNCHANGED <<graph, n_odom_factors, n_loop_factors, odom_poses,
                   opt_status, optimized_poses>>

BuildOptimize ==
    /\ BuildFrame
    /\ bpc = "optimize"
    /\ IF OptimizeOk(graph, initial_estimates)
       THEN /\ optimized_poses' = optimize(graph, initial_estimates, pose_ids)
            /\ opt_status' = "ok"
       ELSE /\ opt_status' = "raised"
            /\ UNCHANGED optimized_poses
    /\ bpc' = "idle"
    /\ UNCHANGED <<graph, initial_estimates, pose_ids, n_odom_factors,
                   n_loop_factors, bi, odom_poses>>

----------------------------------------------------------------------------
\* LoopDetector (loop_detector.py).

\* sorted(poses.keys())
RECURSIVE SortedSeq(_)
SortedSeq(S) ==
    IF S = {} THEN <<>>
    ELSE LET m == CHOOSE x \in S : \A y \in S : x <= y
         IN  <<m>> \o SortedSeq(S \ {m})

\* Variant: non-strict comparison.
DistLessEq(a, b, threshold) ==
    /\ threshold > 0
    /\ Norm2(VSub(a, b)) <= threshold * threshold

\* np.linalg.norm(a - b) < threshold
DistLess(a, b, threshold) ==
    /\ threshold > 0
    /\ Norm2(VSub(a, b)) < threshold * threshold

\* The two nested loops of detect_candidates over ids = sorted(poses.keys()).
RECURSIVE CandInner(_, _, _, _, _, _)
CandInner(ps, ids, id_i, j, gap, thr) ==
    IF j > Len(ids) THEN <<>>
    ELSE LET id_j == ids[j]
             rest == CandInner(ps, ids, id_i, j + 1, gap, thr)
         IN  IF id_j - id_i < gap THEN rest
             ELSE IF DistLess(ps[id_i].t, ps[id_j].t, thr)
                  THEN <<<<id_i, id_j>>>> \o rest
                  ELSE rest

RECURSIVE CandOuter(_, _, _, _, _)
CandOuter(ps, ids, i, gap, thr) ==
    IF i > Len(ids) THEN <<>>
    ELSE CandInner(ps, ids, ids[i], 1, gap, thr) \o CandOuter(ps, ids, i + 1, gap, thr)

detect_candidates(ps, gap, thr) == CandOuter(ps, SortedSeq(DOMAIN ps), 1, gap, thr)

\* Variant: non-strict comparison.
verify_loop_ge(res, fthr) == res.fitness >= fthr

\* verify_loop: success flag for an ICP result.
verify_loop(res, fthr) == res.fitness > fthr

\* The loop of detect_and_verify over cands, icp[c] being what ICP returns
\* for candidate c.
RECURSIVE VerifyAll(_, _, _, _, _)
VerifyAll(cands, k, clouds, icp, fthr) ==
    IF k > Len(cands) THEN <<>>
    ELSE LET c == cands[k]
             rest == VerifyAll(cands, k + 1, clouds, icp, fthr)
         IN  IF c[1] \notin DOMAIN clouds \/ c[2] \notin DOMAIN clouds THEN rest
             ELSE IF verify_loop(icp[c], fthr)
                  THEN <<<<c[1], c[2], icp[c].transformation>>>> \o rest
                  ELSE rest

SeqRange(q) == { q[k] : k \in 1..Len(q) }

\* What the ICP solver may answer over a run, as a function of the pair.
LoopIcpLow  == [transformation |-> Eye4,                 fitness |-> 3]
LoopIcpHigh == [transformation |-> Pose(0, <<1, 0, 0>>), fitness |-> 4]
LoopOracles(pairs) ==
    { [c \in pairs |-> LoopIcpLow],
      [c \in pairs |-> LoopIcpHigh],
      [c \in pairs |-> IF (c[1] + c[2]) % 2 = 0 THEN LoopIcpLow ELSE LoopIcpHigh],
      [c \in pairs |-> IF (c[1] + c[2]) % 2 = 0 THEN LoopIcpHigh ELSE LoopIcpLow] }

\* detect_and_verify(ps, clouds): sets the detector's call record.
DetectAndVerify(ps, clouds) ==
    LET cands == detect_candidates(ps, min_frame_gap, distance_threshold)
    IN  \E icp \in LoopOracles(SeqRange(cands)) :
          /\ ld_poses' = ps
          /\ ld_clouds' = clouds
          /\ candidates' = cands
          /\ icp_fit' = icp
          /\ verified_loops' = VerifyAll(cands, 1, clouds, icp, icp_fitness_threshold)

\* Variant: the loops are added last first.
RECURSIVE AddLoopsBackwards(_, _, _)
AddLoopsBackwards(g, loops, k) ==
    IF k > Len(loops) THEN g
    ELSE add_loop_closure(AddLoopsBackwards(g, loops, k + 1),
                          loops[k][1], loops[k][2], loops[k][3])

\* for id_from, id_to, T_loop in loops: optimizer.add_loop_closure(...)
RECURSIVE AddLoops(_, _, _)
AddLoops(g, loops, k) ==
    IF k > Len(loops) THEN g
    ELSE AddLoops(add_loop_closure(g, loops[k][1], loops[k][2], loops[k][3]), loops, k + 1)

----------------------------------------------------------------------------
\* run_pipeline.main with --simple-icp, and run_on_sequence inside it.

\* Step 1: the loader raises when no file is found; main exits with 1.
MainLoad ==
    /\ pc = "load"
    /\ IF Len(point_clouds) = 0
       THEN /\ exit_code' = 1
            /\ pc' = "exit"
            /\ UNCHANGED <<poses, world_clouds>>
       ELSE \* run_on_sequence lines 97-105
            /\ poses' = <<Eye4>>
            /\ world_clouds' = <<point_clouds[1]>>
            /\ pc' = "icp"
            /\ UNCHANGED exit_code
    /\ UNCHANGED <<args_loop_closure, point_clouds, fits, optimized_poses>>
    /\ UNCHANGED <<logVars, graphVars, ldCfgVars, ldVars, opVars, extVars>>

\* One iteration of the loop of run_on_sequence (frame i = Len(poses)).
IcpStep ==
    /\ pc \in {"icp", "seq"}
    /\ Len(poses) < Len(point_clouds)
    /\ \E res \in IcpResults :
         LET T_abs == BatchPose(poses, res)
         IN  /\ poses' = Append(poses, T_abs)
             /\ fits' = Append(fits, BatchFitness(poses, res))
             /\ icp_log' = Append(icp_log, res)
             /\ UNCHANGED call_log
             /\ world_clouds' = Append(world_clouds,
                    TransformCloud(T_abs, point_clouds[Len(poses) + 1]))
    /\ UNCHANGED <<pc, args_loop_closure, point_clouds, exit_code, optimized_poses>>
    /\ UNCHANGED <<graphVars, ldCfgVars, ldVars, opVars, extVars>>

\* Variant: the error is swallowed and the motion model used.
IcpRaiseFallback ==
    /\ pc = "icp"
    /\ Len(poses) < Len(point_clouds)
    /\ icp_log' = Append(icp_log, IcpRaised)
    /\ UNCHANGED call_log
    /\ poses' = Append(poses, BatchMotionModel(poses))
    /\ fits' = Append(fits, 0)
    /\ world_clouds' = Append(world_clouds,
           TransformCloud(BatchMotionModel(poses), point_clouds[Len(poses) + 1]))
    /\ UNCHANGED <<pc, args_loop_closure, point_clouds, exit_code, optimized_poses>>
    /\ UNCHANGED <<graphVars, ldCfgVars, ldVars, opVars, extVars>>

\* registration_icp raises: nothing in run_on_sequence catches it, main's
\* except clause prints the error and calls sys.exit(1).
IcpRaise ==
    /\ pc = "icp"
    /\ Len(poses) < Len(point_clouds)
    /\ icp_log' = Append(icp_log, IcpRaised)
    /\ UNCHANGED call_log
    /\ exit_code' = 1
    /\ pc' = "exit"
    /\ UNCHANGED <<args_loop_closure, point_clouds, poses, world_clouds, fits,
                   optimized_poses>>
    /\ UNCHANGED <<graphVars, ldCfgVars, ldVars, opVars, extVars>>

\* run_on_sequence returns; Step 3 constructs the optimizer and calls
\* build_from_odometry(odom_poses).
MainGraph ==
    /\ pc = "icp"
    /\ Len(poses) = Len(point_clouds)
    /\ BuildCall(poses)
    /\ pc' = "build"
    /\ UNCHANGED <<args_loop_closure, point_clouds, poses, world_clouds, fits,
                   exit_code>>
    /\ UNCHANGED <<logVars, ldCfgVars, ldVars, opVars, extVars>>

\* build_from_odometry returned; optional loop closure, lines 161-177.
MainLoops ==
    /\ pc = "build"
    /\ bpc = "idle"
    /\ IF args_loop_closure
       THEN /\ DetectAndVerify(optimized_poses,
                  [i \in 0..(Len(point_clouds) - 1) |-> point_clouds[i + 1]])
            /\ graph' = AddLoops(graph, verified_loops', 1)
            /\ n_loop_factors' = n_loop_factors + Len(verified_loops')
            /\ IF Len(verified_loops') > 0
               THEN IF OptimizeOk(graph', initial_estimates)
                    THEN /\ optimized_poses' = optimize(graph', initial_estimates, pose_ids)
                         /\ opt_status' = "ok"
                    ELSE /\ opt_status' = "raised"
                         /\ UNCHANGED optimized_poses
               ELSE UNCHANGED <<optimized_poses, opt_status>>
       ELSE UNCHANGED <<ldVars, graph, n_loop_factors, optimized_poses, opt_status>>
    /\ pc' = "map"
    /\ UNCHANGED <<args_loop_closure, point_clouds, poses, world_clouds, fits,
                   exit_code>>
    /\ UNCHANGED <<initial_estimates, pose_ids, n_odom_factors, bpc, bi, odom_poses>>
    /\ UNCHANGED <<logVars, ldCfgVars, opVars, extVars>>

\* The optimizer's solve raises inside build_from_odometry (a GTSAM runtime
\* error): main catches only ImportError, so the exception leaves main and
\* the interpreter exits with status 1.
MainGraphRaise ==
    /\ pc = "build"
    /\ bpc = "optimize"
    /\ opt_status' = "raised"
    /\ bpc' = "idle"
    /\ exit_code' = 1
    /\ pc' = "exit"
    /\ UNCHANGED <<args_loop_closure, point_clouds, poses, world_clouds, fits,
                   optimized_poses>>
    /\ UNCHANGED <<graph, initial_estimates, pose_ids, n_odom_factors,
                   n_loop_factors, bi, odom_poses>>
    /\ UNCHANGED <<logVars, ldCfgVars, ldVars, opVars, extVars>>

\* PoseGraphOptimizer() raises ImportError (GTSAM missing): the odometry
\* poses are used directly, lines 183-186.
MainGraphImportError ==
    /\ pc = "icp"
    /\ Len(poses) = Len(point_clouds)
    /\ optimized_poses' = [i \in 0..(Len(poses) - 1) |-> poses[i + 1]]
    /\ pc' = "map"
    /\ UNCHANGED <<args_loop_closure, point_clouds, poses, world_clouds, fits,
                   exit_code>>
    /\ UNCHANGED <<logVars, graphVars, ldCfgVars, ldVars, opVars, extVars>>

----------------------------------------------------------------------------
\* MapBuilder (map_builder.py).  Open3D's voxel_down_sample keeps one point,
\* the centroid, per occupied voxel; the centroid is rounded down to the
\* model's grid, which keeps it inside its voxel.

Voxel(p, v) == <<p[1] \div v, p[2] \div v, p[3] \div v>>

RECURSIVE VSum(_, _)
VSum(pts, S) ==
    IF S = {} THEN <<0, 0, 0>>
    ELSE LET k == CHOOSE x \in S : TRUE
         IN  VAdd(pts[k], VSum(pts, S \ {k}))

Centroid(pts, S) ==
    LET t == VSum(pts, S)
        n == Cardinality(S)
    IN  <<t[1] \div n, t[2] \div n, t[3] \div n>>

voxel_down_sample(pts, v) ==
    LET first == SelectSeq([k \in 1..Len(pts) |-> k],
                     LAMBDA k : \A m \in 1..(k - 1) : Voxel(pts[m], v) # Voxel(pts[k], v))
    IN  [n \in 1..Len(first) |->
            Centroid(pts, { m \in 1..Len(pts) : Voxel(pts[m], v) = Voxel(pts[first[n]], v) })]

\* remove_statistical_outlier returns the inlier subset; which points are
\* inliers is decided by Open3D: all of them, or all but the first or the
\* last one.
OutlierKeeps(n) == { 1..n } \cup { (1..n) \ {k} : k \in {1, n} }
SelectIdx(pts, keep) ==
    LET idx == SelectSeq([k \in 1..Len(pts) |-> k], LAMBDA k : k \in keep)
    IN  [n \in 1..Len(idx) |-> pts[idx[n]]]

\* add_frame, lines 61-73
add_frame(gm, points, pose, v) ==
    gm \o TransformCloud(pose, IF v > 0 THEN voxel_down_sample(points, v) ELSE points)

\* the loop of build_map, lines 91-93, from frame i (0-based) on
RECURSIVE BuildMapLoop(_, _, _, _, _)
BuildMapLoop(gm, clouds, ps, v, i) ==
    IF i >= Len(clouds) THEN gm
    ELSE BuildMapLoop(IF i \in DOMAIN ps THEN add_frame(gm, clouds[i + 1], ps[i], v) ELSE gm,
                      clouds, ps, v, i + 1)

\* The frames merged into the map, in order: which cloud, with which pose.
AddedFrame(cloud, pose) == [cloud |-> cloud, pose |-> pose]
AddedFrames(clouds, ps) ==
    LET idx == SelectSeq([k \in 1..Len(clouds) |-> k - 1], LAMBDA i : i \in DOMAIN ps)
    IN  [n \in 1..Len(idx) |-> AddedFrame(idx[n], idx[n])]

\* Variant: the final voxel downsampling is left out.
finalize_map_raw(gm, mv, ro, keep) ==
    IF ro /\ Len(gm) > 0 THEN SelectIdx(gm, keep) ELSE gm

\* finalize_map, lines 103-114
finalize_map(gm, mv, ro, keep) ==
    LET down == IF mv > 0 THEN voxel_down_sample(gm, mv) ELSE gm
    IN  IF ro /\ Len(down) > 0 THEN SelectIdx(down, keep \cap (1..Len(down))) ELSE down

\* The map section of the configuration, in model units.
MapConfigs ==
    { [voxel_size |-> 2, map_voxel_size |-> 2,  remove_statistical_outliers |-> TRUE],
      [voxel_size |-> 0, map_voxel_size |-> -2, remove_statistical_outliers |-> FALSE] }

\* Step 4: MapBuilder(config) and build_map; get_statistics of an empty map
\* has no 'bounds_min', so the print at line 203 raises KeyError, which
\* nothing catches.
MainBuildMap ==
    /\ pc = "map"
    /\ \E config \in MapConfigs :
         LET v == config.voxel_size
             mv == config.map_voxel_size
             ro == config.remove_statistical_outliers
             pre == BuildMapLoop(<<>>, point_clouds, optimized_poses, v, 0)
             n_down == Len(IF mv > 0 THEN voxel_down_sample(pre, mv) ELSE pre)
         IN  \E keep \in (IF ro THEN OutlierKeeps(n_down) ELSE { 1..n_down }) :
               /\ voxel_size' = v
               /\ map_voxel_size' = mv
               /\ remove_outliers' = ro
               /\ global_map_pre_finalize' = pre
               /\ global_map' = finalize_map(pre, mv, ro, keep)
               /\ added' = AddedFrames(point_clouds, optimized_poses)
               /\ n_frames_added' = Len(added')
               /\ IF Len(global_map') = 0
                  THEN exit_code' = 1 /\ pc' = "exit"
                  ELSE pc' = "save" /\ UNCHANGED exit_code
    /\ UNCHANGED files
    /\ UNCHANGED <<args_loop_closure, point_clouds, poses, world_clouds, fits,
                   optimized_poses>>
    /\ UNCHANGED <<logVars, graphVars, ldCfgVars, ldVars, opVars, otherVars>>

----------------------------------------------------------------------------
\* icp_odometry_op.Operator.  op_events is the log of the events delivered to
\* on_event, op_out the outputs sent, in order.

\* Variant: the velocity is added twice.
OpMotionModelTwice(ps) ==
    IF Len(ps) >= 2
    THEN Pose(ps[Len(ps)].r,
              VAdd(VAdd(ps[Len(ps)].t, VSub(ps[Len(ps)].t, ps[Len(ps) - 1].t)),
                   VSub(ps[Len(ps)].t, ps[Len(ps) - 1].t)))
    ELSE ps[Len(ps)]

OpMotionModel(ps) ==
    IF Len(ps) >= 2
    THEN Pose(ps[Len(ps)].r,
              VAdd(ps[Len(ps)].t, VSub(ps[Len(ps)].t, ps[Len(ps) - 1].t)))
    ELSE ps[Len(ps)]

\* Variant: the operator's threshold is one unit wider.
OpJumpWide(T_abs, prev_pose) ==
    Norm2(VSub(T_abs.t, prev_pose.t)) > (OpJumpLimit + 1) * (OpJumpLimit + 1)

OpJump(T_abs, prev_pose) ==
    Norm2(VSub(T_abs.t, prev_pose.t)) > OpJumpLimit * OpJumpLimit

\* _register_frame lines 131-147: (T_abs, fitness) from the ICP result.
OpPose(ps, res) ==
    LET T_abs == MatMul(res.transformation, ps[Len(ps)])
    IN  IF OpJump(T_abs, ps[Len(ps)]) THEN OpMotionModel(ps) ELSE T_abs

OpFitness(ps, res) ==
    LET T_abs == MatMul(res.transformation, ps[Len(ps)])
    IN  IF OpJump(T_abs, ps[Len(ps)]) THEN 0 ELSE res.fitness

Event(type, id, value) == [type |-> type, id |-> id, value |-> value]
Output(id, value) == [id |-> id, value |-> value]

\* Variant: the status is sent before the pose.
OpSendStatusFirst(out, pose, frame_idx, fitness, rmse) ==
    out \o << Output("odometry_status", <<frame_idx, fitness, rmse>>),
              Output("pose", pose) >>

\* send_output("pose", ...) then send_output("odometry_status", ...)
OpSend(out, pose, frame_idx, fitness, rmse) ==
    out \o << Output("pose", pose),
              Output("odometry_status", <<frame_idx, fitness, rmse>>) >>

\* What an event of the operator leaves alone; the operator takes events
\* while it is alive.
OpFrame ==
    /\ pc = "op"
    /\ op_alive
    /\ Len(op_events) < MaxEvents
    /\ UNCHANGED <<pipeVars, graphVars, ldCfgVars, ldVars, extVars>>

\* on_event, "pointcloud" input with no points: early return.
OpPointcloudEmpty ==
    /\ OpFrame
    /\ op_events' = Append(op_events, Event("INPUT", "pointcloud", <<>>))
    /\ UNCHANGED logVars
    /\ UNCHANGED <<op_poses, op_world_clouds, op_frame_count, op_out, op_alive>>

\* Variant: the first frame is reported with fitness 0.
OpPointcloudFirstZero ==
    /\ OpFrame
    /\ op_frame_count = 0
    /\ \E points \in Clouds \ {<<>>} :
         /\ op_events' = Append(op_events, Event("INPUT", "pointcloud", points))
         /\ op_world_clouds' = Append(op_world_clouds, points)
         /\ op_frame_count' = op_frame_count + 1
         /\ op_out' = OpSend(op_out, Eye4, op_frame_count' - 1, 0, 0)
    /\ UNCHANGED <<op_poses, op_alive>>
    /\ UNCHANGED logVars

\* on_event, "pointcloud" input, first frame (_register_frame lines 84-88).
OpPointcloudFirst ==
    /\ OpFrame
    /\ op_frame_count = 0
    /\ \E points \in Clouds \ {<<>>} :
         /\ op_events' = Append(op_events, Event("INPUT", "pointcloud", points))
         /\ op_world_clouds' = Append(op_world_clouds, points)
         /\ op_frame_count' = op_frame_count + 1
         /\ op_out' = OpSend(op_out, Eye4, op_frame_count' - 1, FirstFitness, 0)
    /\ UNCHANGED <<op_poses, op_alive>>
    /\ UNCHANGED logVars

\* on_event, "pointcloud" input, later frames (_register_frame lines 90-155).
OpPointcloudNext ==
    /\ OpFrame
    /\ op_frame_count > 0
    /\ \E points \in Clouds \ {<<>>}, res \in IcpResults :
         LET T_abs == OpPose(op_poses, res)
         IN  /\ op_events' = Append(op_events, Event("INPUT", "pointcloud", points))
             /\ icp_log' = Append(icp_log, res)
             /\ UNCHANGED call_log
             /\ op_poses' = Append(op_poses, T_abs)
             /\ op_world_clouds' = Append(op_world_clouds, TransformCloud(T_abs, points))
             /\ op_frame_count' = op_frame_count + 1
             /\ op_out' = OpSend(op_out, T_abs, op_frame_count' - 1,
                                 OpFitness(op_poses, res), res.inlier_rmse)
    /\ UNCHANGED op_alive

\* registration_icp raises inside _register_frame: the exception leaves
\* on_event and the operator is gone; nothing was stored or sent.
OpPointcloudRaise ==
    /\ OpFrame
    /\ op_frame_count > 0
    /\ \E points \in Clouds \ {<<>>} :
         op_events' = Append(op_events, Event("INPUT", "pointcloud", points))
    /\ icp_log' = Append(icp_log, IcpRaised)
    /\ UNCHANGED call_log
    /\ op_alive' = FALSE
    /\ UNCHANGED <<op_poses, op_world_clouds, op_frame_count, op_out>>

\* on_event, "frame_info" input: ignored.
OpFrameInfo ==
    /\ OpFrame
    /\ UNCHANGED logVars
    /\ op_events' = Append(op_events, Event("INPUT", "frame_info", <<>>))
    /\ UNCHANGED <<op_poses, op_world_clouds, op_frame_count, op_out, op_alive>>

\* on_event, STOP.
OpStop ==
    /\ OpFrame
    /\ UNCHANGED logVars
    /\ op_events' = Append(op_events, Event("STOP", "", <<>>))
    /\ op_alive' = FALSE
    /\ UNCHANGED <<op_poses, op_world_clouds, op_frame_count, op_out>>

----------------------------------------------------------------------------
\* map_builder_op.Operator.  The source sends frame i's cloud on the
\* pointcloud input; the odometry operator sends one pose per non-empty
\* frame on the pose input, no earlier than the frame's cloud was sent.
\* The two inputs are otherwise delivered in any interleaving.

\* The pose the odometry publishes for frame i.
MbPose(i) == Pose(i % 4, <<i, 0, 0>>)

\* 0-based frame index of the k-th (0-based) pose on the pose input.
MbNonEmpty == SelectSeq([k \in 1..Len(mb_frames) |-> k - 1],
                        LAMBDA i : Len(mb_frames[i + 1]) > 0)

MbFrame ==
    /\ pc = "mb"
    /\ mb_alive
    /\ UNCHANGED <<pipeVars, logVars, graphVars, ldCfgVars, ldVars, opVars>>
    /\ UNCHANGED <<wpVars, woVars, window_size, auxVars>>
    /\ UNCHANGED <<n_frames_added, voxel_size, map_voxel_size, remove_outliers,
                   downsample_interval, mb_frames>>

\* _save_map, lines 94-118
MbSaveMap(gm, keep) ==
    IF map_saved
    THEN UNCHANGED <<global_map, global_map_pre_finalize, files, map_saved>>
    ELSE /\ global_map_pre_finalize' = gm
         /\ global_map' = SelectIdx(voxel_down_sample(gm, voxel_size), keep)
         /\ files' = files \cup {"map.ply", "map.pcd"}
         /\ map_saved' = TRUE

\* on_event, input pointcloud: lines 124-128
MbPointcloud ==
    /\ MbFrame
    /\ mb_nc < Len(mb_frames)
    /\ LET points == mb_frames[mb_nc + 1]
       IN  pending_cloud' = IF Len(points) > 0
                            THEN <<[frame |-> mb_nc, points |-> points]>>
                            ELSE pending_cloud
    /\ mb_nc' = mb_nc + 1
    /\ UNCHANGED <<global_map, global_map_pre_finalize, added, files>>
    /\ UNCHANGED <<frame_count, pending_pose, map_saved, mb_np, mb_seq_done,
                   mb_out, mb_alive>>

\* on_event, input pose: lines 130-154, with _add_frame (lines 73-92)
MbPoseEvent ==
    /\ MbFrame
    /\ mb_np < Len(MbNonEmpty)
    /\ MbNonEmpty[mb_np + 1] < mb_nc
    /\ LET i == MbNonEmpty[mb_np + 1]
           pose == [frame |-> i, pose |-> MbPose(i)]
       IN  IF pending_cloud # <<>>
           THEN LET cloud == pending_cloud[1]
                    merged == global_map \o TransformCloud(pose.pose, cloud.points)
                IN  /\ global_map' = IF (frame_count + 1) % downsample_interval = 0
                                     THEN voxel_down_sample(merged, voxel_size)
                                     ELSE merged
                    /\ added' = Append(added, AddedFrame(cloud.frame, pose.frame))
                    /\ frame_count' = frame_count + 1
                    /\ mb_out' = Append(mb_out,
                           Output("map_stats", <<Len(global_map'), frame_count + 1>>))
                    /\ pending_cloud' = <<>>
                    /\ pending_pose' = <<>>
           ELSE /\ pending_pose' = <<pose>>
                /\ UNCHANGED <<global_map, added, frame_count, mb_out, pending_cloud>>
    /\ mb_np' = mb_np + 1
    /\ UNCHANGED <<global_map_pre_finalize, files, map_saved, mb_nc, mb_seq_done,
                   mb_alive>>

\* on_event, input sequence_complete: lines 156-173.  The source sends it
\* once, after its last pointcloud, with the number of frames.
MbSequenceComplete ==
    /\ MbFrame
    /\ mb_nc = Len(mb_frames)
    /\ ~mb_seq_done
    /\ mb_seq_done' = TRUE
    /\ LET expected_frames == IF Len(mb_frames) > 1 THEN Len(mb_frames) ELSE 0
       IN  IF expected_frames = 0 \/ frame_count >= expected_frames
           THEN /\ \E keep \in OutlierKeeps(Len(voxel_down_sample(global_map, voxel_size))) :
                      MbSaveMap(global_map, keep)
                /\ mb_out' = Append(mb_out, Output("map_complete", <<frame_count>>))
           ELSE UNCHANGED <<global_map, global_map_pre_finalize, files, map_saved,
                            mb_out>>
    /\ UNCHANGED <<added, frame_count, pending_cloud, pending_pose, mb_nc, mb_np,
                   mb_alive>>

\* Variant: STOP only stops.
MbStopQuiet ==
    /\ MbFrame
    /\ mb_alive' = FALSE
    /\ UNCHANGED <<global_map, global_map_pre_finalize, files, map_saved>>
    /\ UNCHANGED <<added, frame_count, pending_cloud, pending_pose, mb_nc, mb_np,
                   mb_seq_done, mb_out>>

\* on_event, STOP: lines 175-180
MbStop ==
    /\ MbFrame
    /\ IF ~map_saved /\ frame_count > 0
       THEN \E keep \in OutlierKeeps(Len(voxel_down_sample(global_map, voxel_size))) :
               MbSaveMap(global_map, keep)
       ELSE UNCHANGED <<global_map, global_map_pre_finalize, files, map_saved>>
    /\ mb_alive' = FALSE
    /\ UNCHANGED <<added, frame_count, pending_cloud, pending_pose, mb_nc, mb_np,
                   mb_seq_done, mb_out>>

----------------------------------------------------------------------------
\* The PoseGraphOptimizer driven directly through its public methods.

ApiIds == 0..MaxId
ApiPoses == { Eye4, Pose(0, <<1, 0, 0>>) }
ApiOdoms == { <<>>, <<Eye4>>, <<Eye4, Pose(0, <<1, 0, 0>>)>> }

\* A call is made between calls, never inside build_from_odometry;
\* call_log records the methods called, in order.
ApiFrame(method) ==
    /\ pc = "api"
    /\ bpc = "idle"
    /\ Len(call_log) < MaxCalls
    /\ call_log' = Append(call_log, method)
    /\ UNCHANGED <<pc, args_loop_closure, point_clouds, poses, world_clouds,
                   fits, exit_code, icp_log>>
    /\ UNCHANGED <<ldCfgVars, ldVars, opVars, extVars>>

ApiAddPrior ==
    /\ ApiFrame("add_prior")
    /\ Len(graph) < MaxGraph
    /\ \E pose_id \in ApiIds, pose \in ApiPoses :
         graph' = add_prior(graph, pose_id, pose)
    /\ opt_status' = "none"
    /\ UNCHANGED <<initial_estimates, pose_ids, n_odom_factors, n_loop_factors,
                   bpc, bi, odom_poses, optimized_poses>>

ApiAddInitialEstimate ==
    /\ ApiFrame("add_initial_estimate")
    /\ \E pose_id \in ApiIds, pose \in ApiPoses :
         /\ initial_estimates' = add_initial_estimate(initial_estimates, pose_id, pose)
         /\ pose_ids' = pose_ids \cup {pose_id}
    /\ opt_status' = "none"
    /\ UNCHANGED <<graph, n_odom_factors, n_loop_factors, bpc, bi, odom_poses,
                   optimized_poses>>

ApiAddOdometryFactor ==
    /\ ApiFrame("add_odometry_factor")
    /\ Len(graph) < MaxGraph
    /\ \E id_from \in ApiIds, id_to \in ApiIds :
         graph' = add_odometry_factor(graph, id_from, id_to, Eye4)
    /\ n_odom_factors' = n_odom_factors + 1
    /\ opt_status' = "none"
    /\ UNCHANGED <<initial_estimates, pose_ids, n_loop_factors, bpc, bi,
                   odom_poses, optimized_poses>>

ApiAddLoopClosure ==
    /\ ApiFrame("add_loop_closure")
    /\ Len(graph) < MaxGraph
    /\ \E id_from \in ApiIds, id_to \in ApiIds :
         graph' = add_loop_closure(graph, id_from, id_to, Eye4)
    /\ n_loop_factors' = n_loop_factors + 1
    /\ opt_status' = "none"
    /\ UNCHANGED <<initial_estimates, pose_ids, n_odom_factors, bpc, bi,
                   odom_poses, optimized_poses>>

ApiBuild ==
    /\ \E odom \in ApiOdoms :
         /\ ApiFrame(IF Len(odom) = 0 THEN "build_from_odometry_empty"
                                      ELSE "build_from_odometry")
         /\ Len(graph) + Len(odom) <= MaxGraph
         /\ BuildCall(odom)

ApiOptimize ==
    /\ ApiFrame("optimize")
    /\ IF OptimizeOk(graph, initial_estimates)
       THEN /\ optimized_poses' = optimize(graph, initial_estimates, pose_ids)
            /\ opt_status' = "ok"
       ELSE /\ opt_status' = "raised"
            /\ UNCHANGED optimized_poses
    /\ UNCHANGED <<graph, initial_estimates, pose_ids, n_odom_factors,
                   n_loop_factors, bpc, bi, odom_poses>>

----------------------------------------------------------------------------
\* The LoopDetector called directly on a pose dictionary.

LdIds == 0..(MaxId + 1)
LdPoses == { Pose(0, <<0, 0, 0>>), Pose(0, <<1, 0, 0>>), Pose(0, <<2, 0, 0>>) }
LdPoseDicts == UNION { [S -> LdPoses] : S \in SUBSET LdIds }
LdCloudDicts == UNION { [S -> Clouds \ {<<>>}] : S \in SUBSET LdIds }
LdMinFrameGaps == {-1, 0, 1, 2}
LdDistanceThresholds == {1, 2}

LdFrame ==
    /\ pc = "ld"
    /\ pc' = "ld_done"
    /\ UNCHANGED <<args_loop_closure, point_clouds, poses, world_clouds,
                   fits, exit_code, optimized_poses>>
    /\ UNCHANGED <<logVars, graphVars, ldCfgVars, opVars, extVars>>

LdDetectCandidates ==
    /\ LdFrame
    /\ \E ps \in LdPoseDicts :
         /\ ld_poses' = ps
         /\ candidates' = detect_candidates(ps, min_frame_gap, distance_threshold)
    /\ UNCHANGED <<ld_clouds, icp_fit, verified_loops>>

LdDetectAndVerify ==
    /\ LdFrame
    /\ \E ps \in LdPoseDicts, clouds \in LdCloudDicts : DetectAndVerify(ps, clouds)

----------------------------------------------------------------------------
\* WaypointExtractor (waypoint_extractor.py).  Positions are the
\* translations of the poses; distances are compared squared.

XYDist2(a, b) == (a[1] - b[1]) * (a[1] - b[1]) + (a[2] - b[2]) * (a[2] - b[2])
XY(p) == <<p[1], p[2]>>
SubSeqFrom(q, a, b) == [k \in 1..(b - a + 1) |-> q[a + k - 1]]
Last(q) == q[Len(q)]

\* dist >= d for a distance whose square is dist2
DistAtLeast(dist2, d) == d <= 0 \/ dist2 >= d * d

\* the loop of _filter_by_distance, lines 75-78, from positions[k] on
RECURSIVE FilterLoop(_, _, _, _)
FilterLoop(positions, k, filtered, d) ==
    IF k > Len(positions) THEN filtered
    ELSE FilterLoop(positions, k + 1,
                    IF DistAtLeast(XYDist2(positions[k], Last(filtered)), d)
                    THEN Append(filtered, positions[k]) ELSE filtered,
                    d)

filter_by_distance(positions, d) ==
    IF Len(positions) = 0 THEN positions
    ELSE FilterLoop(positions, 2, <<positions[1]>>, d)

\* twice np.median of the z column: the middle value, or the mean of the
\* two middle values
KthSmallest(zs, k) ==
    CHOOSE x \in { zs[i] : i \in 1..Len(zs) } :
        /\ Cardinality({ i \in 1..Len(zs) : zs[i] < x }) < k
        /\ k <= Cardinality({ i \in 1..Len(zs) : zs[i] <= x })
Median2(zs) ==
    LET n == Len(zs)
    IN  IF n % 2 = 1 THEN 2 * KthSmallest(zs, (n + 1) \div 2)
        ELSE KthSmallest(zs, n \div 2) + KthSmallest(zs, n \div 2 + 1)
Abs(x) == IF x < 0 THEN 0 - x ELSE x

\* _filter_by_z, lines 82-89
filter_by_z(positions, z_thr) ==
    IF Len(positions) = 0 THEN positions
    ELSE LET z_ref2 == Median2([k \in 1..Len(positions) |-> positions[k][3]])
         IN  SelectSeq(positions, LAMBDA p : Abs(2 * p[3] - z_ref2) < 2 * z_thr)

\* squared distance of p from the line through start and end, times the
\* squared length of the chord
Cross2(p, start, end) ==
    LET c == (p[1] - start[1]) * (end[2] - start[2]) - (p[2] - start[2]) * (end[1] - start[1])
    IN  c * c

\* index (1-based) of the first point at maximum distance, lines 126-135
MaxIdx(points) ==
    LET d(i) == Cross2(points[i], points[1], Last(points))
    IN  CHOOSE i \in 1..Len(points) :
            /\ \A j \in 1..Len(points) : d(j) <= d(i)
            /\ \A j \in 1..(i - 1) : d(j) < d(i)

\* Variant: the tolerance is one unit wider.
ExceedsLoose(points, i, tolerance) ==
    \/ tolerance + 1 < 0
    \/ Cross2(points[i], points[1], Last(points)) >
           (tolerance + 1) * (tolerance + 1) * XYDist2(points[1], Last(points))

\* max_dist > tolerance (a distance is never below a negative tolerance)
Exceeds(points, i, tolerance) ==
    \/ tolerance < 0
    \/ Cross2(points[i], points[1], Last(points)) >
           tolerance * tolerance * XYDist2(points[1], Last(points))

\* _douglas_peucker, lines 106-144: the 0-based indices of the points kept
RECURSIVE douglas_peucker(_, _)
douglas_peucker(points, tolerance) ==
    LET n == Len(points)
    IN  IF n < 3 THEN [k \in 1..n |-> k - 1]
        ELSE IF XYDist2(points[1], points[n]) = 0 THEN <<0, n - 1>>
        ELSE LET max_idx == MaxIdx(points)
             IN  IF Exceeds(points, max_idx, tolerance)
                 THEN LET left == douglas_peucker(SubSeqFrom(points, 1, max_idx), tolerance)
                          right == douglas_peucker(SubSeqFrom(points, max_idx, n), tolerance)
                      IN  SubSeqFrom(left, 1, Len(left) - 1) \o
                              [k \in 1..Len(right) |-> right[k] + max_idx - 1]
                 ELSE <<0, n - 1>>

\* _simplify_trajectory, lines 91-104
simplify_trajectory(positions, tolerance) ==
    IF Len(positions) < 3 THEN positions
    ELSE LET indices == douglas_peucker([k \in 1..Len(positions) |-> XY(positions[k])], tolerance)
         IN  [k \in 1..Len(indices) |-> positions[indices[k] + 1]]

\* extract, lines 35-66; z_thr is <<>> for None
extract(ps, d, z_thr, simp, tolerance) ==
    IF DOMAIN ps = {} THEN <<>>
    ELSE LET sorted_ids == SortedSeq(DOMAIN ps)
             positions == [k \in 1..Len(sorted_ids) |-> ps[sorted_ids[k]].t]
             by_distance == filter_by_distance(positions, d)
             by_z == IF z_thr # <<>> THEN filter_by_z(by_distance, z_thr[1]) ELSE by_distance
             waypoints_3d == IF simp THEN simplify_trajectory(by_z, tolerance) ELSE by_z
         IN  [k \in 1..Len(waypoints_3d) |-> XY(waypoints_3d[k])]

\* The waypoints section of the configuration used by the pipeline, in
\* model units.
WpConfigs ==
    { [min_distance |-> 2, z_threshold |-> <<>>,  simplify |-> TRUE,  simplify_tolerance |-> 1],
      [min_distance |-> 2, z_threshold |-> <<1>>, simplify |-> FALSE, simplify_tolerance |-> 0] }

ArtifactNames == {"map.ply", "map.pcd", "trajectory.txt", "waypoints.txt"}

\* Step 5 of main: the map, the trajectory and the waypoints are written;
\* compute_statistics of an empty waypoint list has no 'total_length', so
\* the print at line 225 raises KeyError after the files were written.
MainSave ==
    /\ pc = "save"
    /\ files' = files \cup ArtifactNames
    /\ \E config \in WpConfigs :
         /\ min_distance' = config.min_distance
         /\ z_threshold' = config.z_threshold
         /\ simplify' = config.simplify
         /\ simplify_tolerance' = config.simplify_tolerance
         /\ waypoints' = extract(optimized_poses, config.min_distance, config.z_threshold,
                                 config.simplify, config.simplify_tolerance)
    /\ exit_code' = IF Len(waypoints') = 0 THEN 1 ELSE 0
    /\ pc' = "exit"
    /\ UNCHANGED <<args_loop_closure, point_clouds, poses, world_clouds, fits,
                   optimized_poses>>
    /\ UNCHANGED <<logVars, graphVars, ldCfgVars, ldVars, opVars>>
    /\ UNCHANGED <<global_map, n_frames_added, voxel_size, map_voxel_size,
                   remove_outliers, global_map_pre_finalize, added>>
    /\ UNCHANGED <<mbVars, woVars, dp_indices, window_size, auxVars>>

\* What a call on a WaypointExtractor leaves alone.
WpFrame ==
    /\ pc = "wp"
    /\ UNCHANGED <<args_loop_closure, point_clouds, poses, world_clouds, fits,
                   exit_code, optimized_poses>>
    /\ UNCHANGED <<logVars, graphVars, ldCfgVars, ldVars, opVars>>
    /\ UNCHANGED <<mapVars, mbVars, woVars, window_size, auxVars>>
    /\ UNCHANGED <<min_distance, z_threshold, simplify, simplify_tolerance>>

\* extract(poses) called on a pose dictionary.
WpExtract ==
    /\ WpFrame
    /\ waypoints' = extract(optimized_poses, min_distance, z_threshold, simplify,
                            simplify_tolerance)
    /\ pc' = "wp_done"
    /\ UNCHANGED dp_indices

\* _douglas_peucker(points, tolerance) called on the 2D polyline of the poses.
WpDouglasPeucker ==
    /\ WpFrame
    /\ LET sorted_ids == SortedSeq(DOMAIN optimized_poses)
       IN  dp_indices' = douglas_peucker(
               [k \in 1..Len(sorted_ids) |-> XY(optimized_poses[sorted_ids[k]].t)],
               simplify_tolerance)
    /\ pc' = "dp_done"
    /\ UNCHANGED waypoints

----------------------------------------------------------------------------
\* waypoint_extractor_op.Operator.

\* last_dist > 0.1 m, with 0.1 m = LastGapNum / LastGapDen model units
LastGapNum == 2
LastGapDen == 5
FartherThanLastGap(dist2) == LastGapDen * LastGapDen * dist2 > LastGapNum * LastGapNum

\* index (1-based) of the first interior point at maximum distance,
\* lines 76-86; 1 when no interior point is off the chord
OpMaxIdx(points) ==
    LET d(i) == Cross2(points[i], points[1], Last(points))
        interior == 2..(Len(points) - 1)
    IN  IF \A i \in interior : d(i) = 0 THEN 1
        ELSE CHOOSE i \in interior :
                 /\ \A j \in interior : d(j) <= d(i)
                 /\ \A j \in 2..(i - 1) : d(j) < d(i)

\* _douglas_peucker of the operator, lines 61-94: the points kept
RECURSIVE op_douglas_peucker(_, _)
op_douglas_peucker(points, eps) ==
    LET n == Len(points)
    IN  IF n <= 2 THEN points
        ELSE IF XYDist2(points[1], points[n]) = 0 THEN <<points[1], points[n]>>
        ELSE LET max_idx == OpMaxIdx(points)
             IN  IF Exceeds(points, max_idx, eps)
                 THEN LET left == op_douglas_peucker(SubSeqFrom(points, 1, max_idx), eps)
                          right == op_douglas_peucker(SubSeqFrom(points, max_idx, n), eps)
                      IN  SubSeqFrom(left, 1, Len(left) - 1) \o right
                 ELSE <<points[1], points[n]>>

\* the spacing loop of _extract_waypoints, lines 109-113
RECURSIVE SpacingLoop(_, _, _, _)
SpacingLoop(trajectory, k, wps, d) ==
    IF k > Len(trajectory) THEN wps
    ELSE SpacingLoop(trajectory, k + 1,
                     IF DistAtLeast(XYDist2(trajectory[k], Last(wps)), d)
                     THEN Append(wps, trajectory[k]) ELSE wps,
                     d)

\* _extract_waypoints, lines 96-123
extract_waypoints(ps, d, simp, eps) ==
    IF Len(ps) = 0 THEN <<>>
    ELSE LET trajectory == [k \in 1..Len(ps) |-> XY(ps[k].t)]
         IN  IF simp THEN op_douglas_peucker(trajectory, eps)
             ELSE LET spaced == SpacingLoop(trajectory, 2, <<trajectory[1]>>, d)
                  IN  IF FartherThanLastGap(XYDist2(Last(trajectory), Last(spaced)))
                      THEN Append(spaced, Last(trajectory))
                      ELSE spaced

WoFrame ==
    /\ pc = "wo"
    /\ wo_alive
    /\ UNCHANGED <<pipeVars, logVars, graphVars, ldCfgVars, ldVars, opVars>>
    /\ UNCHANGED <<global_map, n_frames_added, voxel_size, map_voxel_size,
                   remove_outliers, global_map_pre_finalize, added>>
    /\ UNCHANGED <<mbVars, min_distance, z_threshold, simplify_tolerance, dp_indices>>
    /\ UNCHANGED <<simplify, min_spacing, epsilon, window_size, auxVars>>

\* _save_outputs and the two send_output calls, lines 166-193
WoExtractAndSave(send) ==
    /\ waypoints' = extract_waypoints(wo_poses, min_spacing, simplify, epsilon)
    /\ files' = files \cup {"waypoints.txt", "trajectory.txt"}
    /\ wo_out' = IF send
                 THEN wo_out \o <<Output("waypoints", waypoints'),
                                  Output("trajectory", [k \in 1..Len(wo_poses) |-> XY(wo_poses[k].t)])>>
                 ELSE wo_out

\* The positions the trajectory is drawn from.
WpPositions == { <<0, 0, 0>>, <<2, 0, 0>>, <<4, 0, 0>>, <<2, 2, 4>>, <<1, 0, 0>> }

\* on_event, input pose: lines 158-163
WoPose ==
    /\ WoFrame
    /\ Len(wo_poses) < MaxPoses
    /\ \E t \in WpPositions : wo_poses' = Append(wo_poses, Pose(0, t))
    /\ UNCHANGED <<waypoints, files, wo_out, waypoints_extracted, wo_alive>>

\* on_event, input map_complete: lines 165-193
WoMapComplete ==
    /\ WoFrame
    /\ IF ~waypoints_extracted /\ Len(wo_poses) > 0
       THEN WoExtractAndSave(TRUE) /\ waypoints_extracted' = TRUE
       ELSE UNCHANGED <<waypoints, files, wo_out, waypoints_extracted>>
    /\ UNCHANGED <<wo_poses, wo_alive>>

\* on_event, STOP: lines 195-202
WoStop ==
    /\ WoFrame
    /\ IF ~waypoints_extracted /\ Len(wo_poses) > 0
       THEN WoExtractAndSave(FALSE)
       ELSE UNCHANGED <<waypoints, files, wo_out>>
    /\ wo_alive' = FALSE
    /\ UNCHANGED <<wo_poses, waypoints_extracted>>

----------------------------------------------------------------------------
\* PCDLoader.preprocess (pcd_loader.py lines 69-99).  Ranges are compared
\* through squared norms.

\* distances >= self.min_range, line 84
NormAtLeast(p, r) == r <= 0 \/ Norm2(p) >= r * r
\* distances <= self.max_range, line 84
NormAtMost(p, r) == r >= 0 /\ Norm2(p) <= r * r

\* lines 83-85
range_filter(points, cfg) ==
    SelectSeq(points, LAMBDA p : NormAtLeast(p, cfg.min_range) /\ NormAtMost(p, cfg.max_range))

\* points[:, 2] > self.ground_threshold, line 89
AboveGround(p, cfg) == p[3] > cfg.ground_threshold

\* lines 88-90
ground_removal(points, cfg) ==
    IF cfg.remove_ground /\ Len(points) > 0
    THEN SelectSeq(points, LAMBDA p : AboveGround(p, cfg))
    ELSE points

\* lines 79-99
preprocess(points, cfg) ==
    IF Len(points) = 0 THEN points
    ELSE LET kept == ground_removal(range_filter(points, cfg), cfg)
         IN  IF cfg.voxel_size > 0 /\ Len(kept) > 0
             THEN voxel_down_sample(kept, cfg.voxel_size)
             ELSE kept

\* loader.preprocess(points) called on a frame.
PcdPreprocess ==
    /\ pc = "pp"
    /\ pp_result' = preprocess(pp_points, loader)
    /\ pc' = "pp_done"
    /\ UNCHANGED <<args_loop_closure, point_clouds, poses, world_clouds, fits,
                   exit_code, optimized_poses>>
    /\ UNCHANGED <<logVars, graphVars, ldCfgVars, ldVars, opVars, mapVars,
                   mbVars, wpVars, woVars, window_size>>
    /\ UNCHANGED <<loader, pp_points, dpVars, loop_seeds, decVars, srcVars, refVars>>

----------------------------------------------------------------------------
\* _douglas_peucker call by call (waypoint_extractor.py lines 106-144,
\* waypoint_extractor_op.py lines 61-94).  dp_stack holds one frame per
\* active call, the innermost last: its points, where it stands ("call":
\* entered, "left"/"right": waiting for that recursive call), max_idx
\* (0-based) and the result of the left call.  dp_ret is <<>> or holds the
\* value being returned to the caller.  Results are the 0-based indices
\* kept; the operator's version returns the points at these indices.

\* The interpreter's recursion limit, above the deepest call chain a
\* shrinking recursion can reach on the polylines considered.
RecursionLimit == MaxDpPoints + 1

DpFrame(points, phase, max_idx, left) ==
    [points |-> points, phase |-> phase, max_idx |-> max_idx, left |-> left]

DpTop == dp_stack[Len(dp_stack)]
DpPop == SubSeq(dp_stack, 1, Len(dp_stack) - 1)
DpReplaceTop(f) == [dp_stack EXCEPT ![Len(dp_stack)] = f]

\* max_idx, 0-based: distances.index(max_dist) (lines 134-135) or the
\* operator's loop (lines 76-86)
DpMaxIdx(points) ==
    (IF dp_kind = "batch" THEN MaxIdx(points) ELSE OpMaxIdx(points)) - 1

\* a recursive call: a new frame, or RecursionError at the limit
DpRecurse(stack, points) ==
    IF Len(stack) >= RecursionLimit
    THEN /\ dp_status' = "recursion_error"
         /\ dp_stack' = stack
    ELSE /\ dp_status' = dp_status
         /\ dp_stack' = Append(stack, DpFrame(points, "call", 0, <<>>))

\* a return: the frame is popped and the value handed to the caller
DpReturnValue(value) ==
    /\ dp_stack' = DpPop
    /\ dp_ret' = <<value>>
    /\ dp_status' = IF Len(dp_stack) = 1 THEN "done" ELSE dp_status

DpRun ==
    /\ pc = "dp"
    /\ dp_status = "running"
    /\ UNCHANGED <<pipeVars, logVars, graphVars, ldCfgVars, ldVars, opVars,
                   mapVars, mbVars, wpVars, woVars, window_size, ppVars,
                   loop_seeds, decVars, srcVars, refVars>>
    /\ UNCHANGED <<dp_kind, dp_points, dp_tolerance>>

\* A call runs from its entry to its first recursive call or its return.
DpCall ==
    /\ DpRun
    /\ dp_ret = <<>>
    /\ DpTop.phase = "call"
    /\ LET points == DpTop.points
           n == Len(points)
       IN  IF n < 3
           THEN DpReturnValue([k \in 1..n |-> k - 1])
           ELSE IF XYDist2(points[1], points[n]) = 0
           THEN DpReturnValue(<<0, n - 1>>)
           ELSE LET max_idx == DpMaxIdx(points)
                IN  IF Exceeds(points, max_idx + 1, dp_tolerance)
                    THEN /\ DpRecurse(DpReplaceTop(DpFrame(points, "left", max_idx, <<>>)),
                                      SubSeqFrom(points, 1, max_idx + 1))
                         /\ UNCHANGED dp_ret
                    ELSE DpReturnValue(<<0, n - 1>>)

\* A recursive call returned: after the left one the right one is made
\* (line 140 / 91), after the right one the two results are combined
\* (line 142 / 92) and returned.
DpReturn ==
    /\ DpRun
    /\ dp_ret # <<>>
    /\ LET f == DpTop
           n == Len(f.points)
       IN  IF f.phase = "left"
           THEN /\ DpRecurse(DpReplaceTop(DpFrame(f.points, "right", f.max_idx, dp_ret[1])),
                             SubSeqFrom(f.points, f.max_idx + 1, n))
                /\ dp_ret' = <<>>
           ELSE LET right == dp_ret[1]
                IN  DpReturnValue(SubSeqFrom(f.left, 1, Len(f.left) - 1) \o
                                      [k \in 1..Len(right) |-> right[k] + f.max_idx])

----------------------------------------------------------------------------
\* detect_and_verify on frames that saw one scene (loop_detector.py lines
\* 129-143) followed by the add_loop_closure calls of run_pipeline.py lines
\* 169-173.  Frame k's cloud is the scene expressed in frame k; ICP answers
\* with a transform that maps its source cloud onto its target cloud.

\* A scene without symmetries, in world coordinates.
Scene == << <<1, 0, 0>>, <<0, 2, 1>>, <<3, 1, 0>> >>
SceneFrom(pose) == TransformCloud(MatInv(pose), Scene)

\* Transforms registration_icp may return.
LcTransforms == { Pose(r, <<x, y, 0>>) : r \in 0..3, x \in -2..2, y \in -2..2 }

\* registration_icp(source, target, ...) aligned the clouds: the results
\* that map source onto target.
IcpAligned(source, target) ==
    { T \in LcTransforms : TransformCloud(T, source) = target }

\* initial_guess = np.linalg.inv(poses[id_i]) @ poses[id_j], line 134
initial_guess(ps, id_i, id_j) == MatMul(MatInv(ps[id_i]), ps[id_j])

LcDetectAndVerify ==
    /\ pc = "lc"
    /\ pc' = "lc_done"
    /\ LET cands == detect_candidates(ld_poses, min_frame_gap, distance_threshold)
           pairs == SeqRange(cands)
       IN  /\ candidates' = cands
           /\ loop_seeds' = [c \in pairs |-> initial_guess(ld_poses, c[1], c[2])]
           /\ \E icp \in [pairs -> [transformation : LcTransforms, fitness : {4}]] :
                 /\ \A c \in pairs :
                       icp[c].transformation \in IcpAligned(ld_clouds[c[1]], ld_clouds[c[2]])
                 /\ icp_fit' = icp
                 /\ verified_loops' = VerifyAll(cands, 1, ld_clouds, icp, icp_fitness_threshold)
           /\ graph' = AddLoops(graph, verified_loops', 1)
           /\ n_loop_factors' = n_loop_factors + Len(verified_loops')
    /\ UNCHANGED <<args_loop_closure, point_clouds, poses, world_clouds, fits,
                   exit_code, optimized_poses>>
    /\ UNCHANGED <<initial_estimates, pose_ids, n_odom_factors, bpc, bi, odom_poses,
                   opt_status>>
    /\ UNCHANGED <<logVars, ldCfgVars, ld_poses, ld_clouds, opVars, mapVars, mbVars,
                   wpVars, woVars, window_size, ppVars, dpVars, decVars, srcVars,
                   refVars>>

----------------------------------------------------------------------------
\* The ICP target of frame i (simple_icp.py lines 108-126,
\* icp_odometry_op.py lines 90-102), by numbers of points: dec_sizes[j + 1]
\* is len(world_clouds[j]).

DecimationCap == 5000

Max2(a, b) == IF a >= b THEN a ELSE b

\* len(pts[::step]): the indices 0, step, 2 * step, ... below n
StridedLen(n, step) == Cardinality({ idx \in 0..(n - 1) : idx % step = 0 })

\* step = max(1, len(pts) // 5000); pts[::step]
DecimatedLen(n) == StridedLen(n, Max2(1, n \div DecimationCap))

\* the frames start_idx .. i-1 of the window, decimated
LocalMapLens(sizes, k) ==
    LET i == Len(sizes)
        start_idx == Max2(0, i - k)
    IN  [m \in 1..(i - start_idx) |-> DecimatedLen(sizes[start_idx + m])]

BuildTarget ==
    /\ pc = "dec"
    /\ pc' = "dec_done"
    /\ dec_target' =
          IF dec_kind = "batch" /\ ~(Len(dec_sizes) > 1)
          THEN <<Last(dec_sizes)>>
          ELSE LocalMapLens(dec_sizes, window_size)
    /\ UNCHANGED <<args_loop_closure, point_clouds, poses, world_clouds, fits,
                   exit_code, optimized_poses>>
    /\ UNCHANGED <<logVars, graphVars, ldCfgVars, ldVars, opVars, mapVars, mbVars,
                   wpVars, woVars, window_size, ppVars, dpVars, loop_seeds,
                   srcVars, refVars>>
    /\ UNCHANGED <<dec_kind, dec_sizes>>

----------------------------------------------------------------------------
\* pcd_source_op.Operator.  pcd_files[k + 1] is what _load_and_preprocess
\* returns for the k-th file of the sorted directory listing.

SrcFrame ==
    /\ pc = "src"
    /\ src_alive
    /\ UNCHANGED <<pipeVars, logVars, graphVars, ldCfgVars, ldVars, opVars,
                   mapVars, mbVars, wpVars, woVars, window_size, ppVars, dpVars,
                   loop_seeds, decVars, refVars>>
    /\ UNCHANGED pcd_files

\* Variant: the completion signal is repeated on every later tick.
SrcCompleteAgain == TRUE

\* not self.sequence_complete_sent, line 144
SrcCompleteDue == ~sequence_complete_sent

\* on_event, input tick: lines 111-152
SrcTick ==
    /\ SrcFrame
    /\ src_ticks < MaxFrames + 2
    /\ src_ticks' = src_ticks + 1
    /\ IF current_frame < Len(pcd_files)
       THEN LET points == pcd_files[current_frame + 1]
            IN  /\ src_out' = src_out \o
                      << Output("pointcloud", points),
                         Output("frame_info",
                                <<current_frame, Len(pcd_files), Len(points)>>) >>
                /\ current_frame' = current_frame + 1
                /\ UNCHANGED sequence_complete_sent
       ELSE IF SrcCompleteDue
       THEN /\ src_out' = Append(src_out,
                                 Output("sequence_complete", <<Len(pcd_files)>>))
            /\ sequence_complete_sent' = TRUE
            /\ UNCHANGED current_frame
       ELSE UNCHANGED <<src_out, current_frame, sequence_complete_sent>>
    /\ UNCHANGED src_alive

\* on_event, STOP: lines 154-156
SrcStop ==
    /\ SrcFrame
    /\ src_alive' = FALSE
    /\ UNCHANGED <<current_frame, sequence_complete_sent, src_ticks, src_out>>

----------------------------------------------------------------------------
\* run_on_sequence and the odometry operator side by side: the operator
\* receives the frames of point_clouds one by one while run_on_sequence
\* iterates over them, and registration_icp returns the same result to both.

\* frames of the target of frame i in run_on_sequence, lines 109-126
BatchWindow(i, k) ==
    IF i > 1 THEN Max2(0, i - k)..(i - 1) ELSE {i - 1}

\* frames of the target in _register_frame, lines 91-96, with n world clouds
OpWindow(n, k) == Max2(0, n - k)..(n - 1)

RefFrame ==
    /\ pc = "ref"
    /\ op_frame_count < Len(point_clouds)
    /\ op_events' = Append(op_events,
                           Event("INPUT", "pointcloud", point_clouds[op_frame_count + 1]))
    /\ op_frame_count' = op_frame_count + 1
    /\ UNCHANGED <<pc, args_loop_closure, point_clouds, exit_code, optimized_poses>>
    /\ UNCHANGED <<call_log, graphVars, ldCfgVars, ldVars, op_alive, mapVars, mbVars,
                   wpVars, woVars, window_size, ppVars, dpVars, loop_seeds, decVars,
                   srcVars>>

\* Frame 0: run_on_sequence lines 97-105, _register_frame lines 84-88.
RefFirst ==
    /\ RefFrame
    /\ op_frame_count = 0
    /\ poses' = <<Eye4>>
    /\ world_clouds' = <<point_clouds[1]>>
    /\ op_world_clouds' = Append(op_world_clouds, point_clouds[1])
    /\ op_out' = OpSend(op_out, Eye4, 0, FirstFitness, 0)
    /\ UNCHANGED <<fits, icp_log, op_poses, refVars>>

\* Frame i >= 1: one iteration of the loop of run_on_sequence (lines
\* 107-185) and one call of _register_frame (lines 90-155).
RefNext ==
    /\ RefFrame
    /\ op_frame_count > 0
    /\ \E res \in IcpResults :
         LET i == Len(poses)
             points == point_clouds[i + 1]
             T_abs == BatchPose(poses, res)
             op_T_abs == OpPose(op_poses, res)
         IN  /\ icp_log' = Append(icp_log, res)
             /\ batch_targets' = Append(batch_targets, BatchWindow(i, window_size))
             /\ poses' = Append(poses, T_abs)
             /\ fits' = Append(fits, BatchFitness(poses, res))
             /\ world_clouds' = Append(world_clouds, TransformCloud(T_abs, points))
             /\ op_targets' = Append(op_targets, OpWindow(Len(op_world_clouds), window_size))
             /\ op_poses' = Append(op_poses, op_T_abs)
             /\ op_world_clouds' = Append(op_world_clouds, TransformCloud(op_T_abs, points))
             /\ op_out' = OpSend(op_out, op_T_abs, op_frame_count,
                                 OpFitness(op_poses, res), res.inlier_rmse)

----------------------------------------------------------------------------
\* Initial states.

RECURSIVE SeqsUpTo(_, _)
SeqsUpTo(S, n) ==
    IF n = 0 THEN {<<>>}
    ELSE LET shorter == SeqsUpTo(S, n - 1)
         IN  shorter \cup { Append(q, x) : q \in { r \in shorter : Len(r) = n - 1 }, x \in S }

\* Configurations (loop_closure section of the YAML file).
MinFrameGaps == {0, 2}
DistanceThresholds == {2, 20}
FitnessThresholds == {3}

InitPipeVars ==
    /\ poses = <<>>
    /\ world_clouds = <<>>
    /\ fits = <<>>
    /\ exit_code = -1
    /\ optimized_poses = EmptyDict
    /\ icp_log = <<>>
    /\ call_log = <<>>

InitGraphVars ==
    /\ graph = <<>>
    /\ initial_estimates = EmptyDict
    /\ pose_ids = {}
    /\ n_odom_factors = 0
    /\ n_loop_factors = 0
    /\ bpc = "idle"
    /\ bi = 1
    /\ odom_poses = <<>>
    /\ opt_status = "none"

InitLdCfg ==
    /\ min_frame_gap \in MinFrameGaps
    /\ distance_threshold \in DistanceThresholds
    /\ icp_fitness_threshold \in FitnessThresholds

InitLdVars ==
    /\ ld_poses = EmptyDict
    /\ ld_clouds = <<>>
    /\ icp_fit = <<>>
    /\ candidates = <<>>
    /\ verified_loops = <<>>

InitOpVars ==
    /\ op_poses = <<Eye4>>
    /\ op_world_clouds = <<>>
    /\ op_frame_count = 0
    /\ op_events = <<>>
    /\ op_out = <<>>
    /\ op_alive = TRUE

InitMapState ==
    /\ global_map = <<>>
    /\ n_frames_added = 0
    /\ map_voxel_size = 0
    /\ remove_outliers = FALSE
    /\ global_map_pre_finalize = <<>>
    /\ added = <<>>
    /\ files = {}

InitMapVars == InitMapState /\ voxel_size = 0

InitMbState ==
    /\ frame_count = 0
    /\ pending_cloud = <<>>
    /\ pending_pose = <<>>
    /\ map_saved = FALSE
    /\ mb_nc = 0
    /\ mb_np = 0
    /\ mb_seq_done = FALSE
    /\ mb_out = <<>>
    /\ mb_alive = TRUE

InitMbVars == InitMbState /\ downsample_interval = 10 /\ mb_frames = <<>>

InitWpVars ==
    /\ min_distance = 0
    /\ z_threshold = <<>>
    /\ simplify_tolerance = 0
    /\ waypoints = <<>>
    /\ dp_indices = <<>>

InitWoState ==
    /\ wo_poses = <<>>
    /\ waypoints_extracted = FALSE
    /\ wo_out = <<>>
    /\ wo_alive = TRUE

InitWoVars == InitWoState /\ simplify = FALSE /\ min_spacing = 0 /\ epsilon = 0

\* window_size: int = 5 (simple_icp.py line 84), self.window_size = 5
\* (icp_odometry_op.py line 51)
DefaultWindowSize == 5

\* PCDLoader.__init__ defaults (pcd_loader.py lines 39-43), in model units:
\* voxel_size 0.1 m is below the grid and modelled as off, max_range 100 m,
\* min_range 0.5 m, ground_threshold -1.5 m.
LoaderDefaults ==
    [voxel_size |-> 0, max_range |-> 400, min_range |-> 2,
     remove_ground |-> FALSE, ground_threshold |-> -6]

InitPpVars ==
    /\ loader = LoaderDefaults
    /\ pp_points = <<>>
    /\ pp_result = <<>>

\* No _douglas_peucker call is running.
InitDpVars ==
    /\ dp_kind = "batch"
    /\ dp_points = <<>>
    /\ dp_tolerance = 0
    /\ dp_stack = <<>>
    /\ dp_ret = <<>>
    /\ dp_status = "idle"

InitLoopSeeds == loop_seeds = [c \in {} |-> Eye4]

InitDecVars ==
    /\ dec_kind = "batch"
    /\ dec_sizes = <<>>
    /\ dec_target = <<>>

\* pcd_source_op.Operator.__init__, lines 49-51
InitSrcState ==
    /\ current_frame = 0
    /\ sequence_complete_sent = FALSE
    /\ src_ticks = 0
    /\ src_out = <<>>
    /\ src_alive = TRUE

InitSrcVars == InitSrcState /\ pcd_files = <<>>

InitRefVars ==
    /\ batch_targets = <<>>
    /\ op_targets = <<>>

InitAuxVars ==
    /\ InitPpVars /\ InitDpVars /\ InitLoopSeeds /\ InitDecVars /\ InitSrcVars
    /\ InitRefVars

InitExtVars ==
    /\ InitMapVars /\ InitMbVars /\ InitWpVars /\ InitWoVars
    /\ window_size = DefaultWindowSize

\* run_pipeline.py started on a directory of frames.
InitPipe ==
    /\ InitAuxVars
    /\ pc = "load"
    /\ args_loop_closure \in BOOLEAN
    /\ point_clouds \in SeqsUpTo(Clouds, MaxFrames)
    /\ InitPipeVars /\ InitGraphVars /\ InitLdCfg /\ InitLdVars /\ InitOpVars
    \* the loop_closure section is read only with --loop-closure
    /\ ~args_loop_closure =>
          /\ min_frame_gap = 2
          /\ distance_threshold = 20
    /\ InitExtVars

\* The streaming odometry operator, constructed.
InitOp ==
    /\ InitAuxVars
    /\ pc = "op"
    /\ args_loop_closure = FALSE
    /\ point_clouds = <<>>
    /\ InitPipeVars /\ InitGraphVars /\ InitLdVars /\ InitOpVars
    /\ InitExtVars
    /\ min_frame_gap = 2 /\ distance_threshold = 20 /\ icp_fitness_threshold = 3

\* A fresh PoseGraphOptimizer.
InitApi ==
    /\ InitAuxVars
    /\ pc = "api"
    /\ args_loop_closure = FALSE
    /\ point_clouds = <<>>
    /\ InitPipeVars /\ InitGraphVars /\ InitLdVars /\ InitOpVars
    /\ InitExtVars
    /\ min_frame_gap = 2 /\ distance_threshold = 20 /\ icp_fitness_threshold = 3

\* A LoopDetector constructed from a configuration.
InitLd ==
    /\ InitAuxVars
    /\ pc = "ld"
    /\ args_loop_closure = FALSE
    /\ point_clouds = <<>>
    /\ InitPipeVars /\ InitGraphVars /\ InitLdVars /\ InitOpVars
    /\ InitExtVars
    /\ min_frame_gap \in LdMinFrameGaps
    /\ distance_threshold \in LdDistanceThresholds
    /\ icp_fitness_threshold \in FitnessThresholds

\* The map builder operator, constructed from the map section of the
\* configuration (voxel_size, downsample_interval, in model units).
MbVoxelSizes == {2}
DownsampleIntervals == {2, 10}

InitMb ==
    /\ InitAuxVars
    /\ pc = "mb"
    /\ args_loop_closure = FALSE
    /\ point_clouds = <<>>
    /\ InitPipeVars /\ InitGraphVars /\ InitLdVars /\ InitOpVars
    /\ min_frame_gap = 2 /\ distance_threshold = 20 /\ icp_fitness_threshold = 3
    /\ InitMapState /\ InitMbState /\ InitWpVars /\ InitWoVars
    /\ window_size = DefaultWindowSize
    /\ voxel_size \in MbVoxelSizes
    /\ downsample_interval \in DownsampleIntervals
    /\ mb_frames \in SeqsUpTo(Clouds, MaxFrames)

\* Configurations of the waypoint extractors, in model units.
MinDistances == {2, 3}
ZThresholds == { <<>>, <<1>> }
Tolerances == {0, 1}

\* Pose dictionaries with ids 0..n-1.
WpPoseDicts ==
    { [i \in 0..(Len(q) - 1) |-> Pose(0, q[i + 1])] : q \in SeqsUpTo(WpPositions, MaxPoses) }

\* A WaypointExtractor constructed from a configuration, and the poses it
\* is applied to.
InitWp ==
    /\ InitAuxVars
    /\ pc = "wp"
    /\ args_loop_closure = FALSE
    /\ point_clouds = <<>>
    /\ poses = <<>> /\ world_clouds = <<>> /\ fits = <<>> /\ exit_code = -1
    /\ icp_log = <<>> /\ call_log = <<>>
    /\ optimized_poses \in WpPoseDicts
    /\ InitGraphVars /\ InitLdVars /\ InitOpVars
    /\ min_frame_gap = 2 /\ distance_threshold = 20 /\ icp_fitness_threshold = 3
    /\ InitMapVars /\ InitMbVars /\ InitWoState
    /\ window_size = DefaultWindowSize
    /\ min_spacing = 0 /\ epsilon = 0
    /\ min_distance \in MinDistances
    /\ z_threshold \in ZThresholds
    /\ simplify \in BOOLEAN
    /\ simplify_tolerance \in Tolerances
    /\ waypoints = <<>>
    /\ dp_indices = <<>>

\* The waypoint extractor operator, constructed.
InitWo ==
    /\ InitAuxVars
    /\ pc = "wo"
    /\ args_loop_closure = FALSE
    /\ point_clouds = <<>>
    /\ InitPipeVars /\ InitGraphVars /\ InitLdVars /\ InitOpVars
    /\ min_frame_gap = 2 /\ distance_threshold = 20 /\ icp_fitness_threshold = 3
    /\ InitMapVars /\ InitMbVars /\ InitWpVars /\ InitWoState
    /\ window_size = DefaultWindowSize
    /\ min_spacing \in MinDistances
    /\ simplify \in BOOLEAN
    /\ epsilon \in Tolerances

\* run_on_sequence(point_clouds, window_size = k) called directly on a
\* non-empty sequence, after its lines 97-105.
WindowSizes == {1, 2}

InitSeq ==
    /\ InitAuxVars
    /\ pc = "seq"
    /\ args_loop_closure = FALSE
    /\ point_clouds \in SeqsUpTo(Clouds, MaxFrames) \ {<<>>}
    /\ poses = <<Eye4>>
    /\ world_clouds = <<point_clouds[1]>>
    /\ fits = <<>> /\ exit_code = -1 /\ optimized_poses = EmptyDict
    /\ icp_log = <<>> /\ call_log = <<>>
    /\ InitGraphVars /\ InitLdVars /\ InitOpVars
    /\ min_frame_gap = 2 /\ distance_threshold = 20 /\ icp_fitness_threshold = 3
    /\ InitMapVars /\ InitMbVars /\ InitWpVars /\ InitWoVars
    /\ window_size \in WindowSizes

\* Frames and configurations given to PCDLoader.preprocess, in model units.
PpPoints ==
    { <<0, 0, 0>>, <<2, 0, 0>>, <<3, 0, 1>>, <<4, 0, 0>>, <<5, 0, 0>>,
      <<2, 0, -2>>, <<0, 2, -3>> }
LoaderConfigs ==
    { [voxel_size |-> v, max_range |-> 4, min_range |-> 2,
       remove_ground |-> g, ground_threshold |-> -2] :
         v \in {0, 2}, g \in BOOLEAN }

\* A PCDLoader constructed from a configuration and a frame to preprocess.
InitPp ==
    /\ pc = "pp"
    /\ args_loop_closure = FALSE
    /\ point_clouds = <<>>
    /\ InitPipeVars /\ InitGraphVars /\ InitLdVars /\ InitOpVars
    /\ min_frame_gap = 2 /\ distance_threshold = 20 /\ icp_fitness_threshold = 3
    /\ InitExtVars /\ InitDpVars /\ InitLoopSeeds /\ InitDecVars /\ InitSrcVars
    /\ InitRefVars
    /\ loader \in LoaderConfigs
    /\ pp_points \in SeqsUpTo(PpPoints, MaxPoints)
    /\ pp_result = <<>>

\* Polylines and tolerances given to _douglas_peucker, in model units.
DpPositions == { <<0, 0>>, <<2, 0>>, <<4, 0>>, <<2, 2>> }
DpTolerances == {-1, 0, 1}

\* _douglas_peucker(points, tolerance) of the extractor ("batch") or of the
\* operator ("op") has just been called.
InitDp ==
    /\ pc = "dp"
    /\ args_loop_closure = FALSE
    /\ point_clouds = <<>>
    /\ InitPipeVars /\ InitGraphVars /\ InitLdVars /\ InitOpVars
    /\ min_frame_gap = 2 /\ distance_threshold = 20 /\ icp_fitness_threshold = 3
    /\ InitExtVars /\ InitPpVars /\ InitLoopSeeds /\ InitDecVars /\ InitSrcVars
    /\ InitRefVars
    /\ dp_kind \in {"batch", "op"}
    /\ dp_points \in SeqsUpTo(DpPositions, MaxDpPoints)
    /\ dp_tolerance \in DpTolerances
    /\ dp_stack = <<DpFrame(dp_points, "call", 0, <<>>)>>
    /\ dp_ret = <<>>
    /\ dp_status = "running"

\* Poses of two frames that revisit one place.
LcPoses ==
    { Eye4, Pose(0, <<1, 0, 0>>), Pose(1, <<0, 1, 0>>), Pose(2, <<0, 0, 0>>),
      Pose(3, <<1, 1, 0>>) }

\* A LoopDetector and the poses and clouds of two frames given to
\* detect_and_verify.
InitLc ==
    /\ pc = "lc"
    /\ args_loop_closure = FALSE
    /\ point_clouds = <<>>
    /\ InitPipeVars /\ InitGraphVars /\ InitOpVars
    /\ min_frame_gap = 1 /\ distance_threshold = 20 /\ icp_fitness_threshold = 3
    /\ InitExtVars /\ InitPpVars /\ InitDpVars /\ InitLoopSeeds /\ InitDecVars /\ InitSrcVars
    /\ InitRefVars
    /\ ld_poses \in [0..1 -> LcPoses]
    /\ ld_clouds = [k \in 0..1 |-> SceneFrom(ld_poses[k])]
    /\ icp_fit = [c \in {} |-> LoopIcpLow]
    /\ candidates = <<>>
    /\ verified_loops = <<>>

\* Numbers of points of the world clouds held when a target is built.
FrameSizes == {1, 4999, 5000, 5001, 9999, 10000, 14999}
DecWindowSizes == {1, 2}

\* An odometry about to build the target for frame Len(dec_sizes).
InitDec ==
    /\ pc = "dec"
    /\ args_loop_closure = FALSE
    /\ point_clouds = <<>>
    /\ InitPipeVars /\ InitGraphVars /\ InitLdVars /\ InitOpVars
    /\ min_frame_gap = 2 /\ distance_threshold = 20 /\ icp_fitness_threshold = 3
    /\ InitMapVars /\ InitMbVars /\ InitWpVars /\ InitWoVars
    /\ InitPpVars /\ InitDpVars /\ InitLoopSeeds /\ InitSrcVars /\ InitRefVars
    /\ window_size \in DecWindowSizes
    /\ dec_kind \in {"batch", "op"}
    /\ dec_sizes \in SeqsUpTo(FrameSizes, MaxWindowFrames) \ {<<>>}
    /\ dec_target = <<>>

\* The source operator constructed on a directory of files.
InitSrc ==
    /\ pc = "src"
    /\ args_loop_closure = FALSE
    /\ point_clouds = <<>>
    /\ InitPipeVars /\ InitGraphVars /\ InitLdVars /\ InitOpVars
    /\ min_frame_gap = 2 /\ distance_threshold = 20 /\ icp_fitness_threshold = 3
    /\ InitExtVars
    /\ InitPpVars /\ InitDpVars /\ InitLoopSeeds /\ InitDecVars /\ InitRefVars
    /\ InitSrcState
    /\ pcd_files \in SeqsUpTo(Clouds, MaxFrames)

\* run_on_sequence called on non-empty frames, and an odometry operator
\* about to receive the same frames; both with the same window size.
InitRef ==
    /\ pc = "ref"
    /\ args_loop_closure = FALSE
    /\ point_clouds \in SeqsUpTo(Clouds \ {<<>>}, MaxFrames) \ {<<>>}
    /\ poses = <<>> /\ world_clouds = <<>> /\ fits = <<>> /\ exit_code = -1
    /\ optimized_poses = EmptyDict
    /\ icp_log = <<>> /\ call_log = <<>>
    /\ InitGraphVars /\ InitLdVars /\ InitOpVars
    /\ min_frame_gap = 2 /\ distance_threshold = 20 /\ icp_fitness_threshold = 3
    /\ InitMapVars /\ InitMbVars /\ InitWpVars /\ InitWoVars
    /\ InitPpVars /\ InitDpVars /\ InitLoopSeeds /\ InitDecVars /\ InitSrcVars
    /\ InitRefVars
    /\ window_size \in WindowSizes \cup {DefaultWindowSize}

Init ==
    \/ InitPipe \/ InitOp \/ InitApi \/ InitLd \/ InitMb \/ InitWp \/ InitWo \/ InitSeq
    \/ InitPp \/ InitDp \/ InitLc \/ InitDec \/ InitSrc \/ InitRef

Next ==
    \/ MainLoad
    \/ IcpStep
    \/ IcpRaise
    \/ MainGraph
    \/ BuildInit0
    \/ BuildChainFactor
    \/ BuildChainEstimate
    \/ BuildOptimize
    \/ MainLoops
    \/ MainGraphRaise
    \/ MainGraphImportError
    \/ MainBuildMap
    \/ OpPointcloudEmpty
    \/ OpPointcloudFirst
    \/ OpPointcloudNext
    \/ OpPointcloudRaise
    \/ OpFrameInfo
    \/ OpStop
    \/ ApiAddPrior
    \/ ApiAddInitialEstimate
    \/ ApiAddOdometryFactor
    \/ ApiAddLoopClosure
    \/ ApiBuild
    \/ ApiOptimize
    \/ LdDetectCandidates
    \/ LdDetectAndVerify
    \/ MbPointcloud
    \/ MbPoseEvent
    \/ MbSequenceComplete
    \/ MbStop
    \/ MainSave
    \/ WpExtract
    \/ WpDouglasPeucker
    \/ WoPose
    \/ WoMapComplete
    \/ WoStop
    \/ PcdPreprocess
    \/ DpCall
    \/ DpReturn
    \/ LcDetectAndVerify
    \/ BuildTarget
    \/ SrcTick
    \/ SrcStop
    \/ RefFirst
    \/ RefNext

Spec == Init /\ [][Next]_vars

\* The dataflow delivers every event that was published: the map builder
\* eventually receives each pointcloud, each pose and the completion signal.
\* Nothing obliges the dataflow to send a STOP.
LiveSpec ==
    /\ Spec
    /\ WF_vars(MbPointcloud)
    /\ WF_vars(MbPoseEvent)
    /\ WF_vars(MbSequenceComplete)

----------------------------------------------------------------------------
\* Properties of the odometry.  Frame i (0-based) has pose OdoPoses[i + 1];
\* for i >= 1 its ICP result is icp_log[i] and its fitness OdoFit(i).

InPipeline == pc \in {"load", "icp", "build", "map", "save", "exit"}
OdoN == IF pc = "op" THEN op_frame_count ELSE Len(poses)
OdoPoses == IF pc = "op" THEN op_poses ELSE poses
OdoFit(i) == IF pc = "op" THEN op_out[2 * i + 2].value[2] ELSE fits[i]
OdoStep2(i) == Norm2(VSub(OdoPoses[i + 1].t, OdoPoses[i].t))
\* The ICP candidate for frame i moved more than 0.75 m (3 units).
OdoRejected(i) ==
    Norm2(VSub(MatMul(icp_log[i].transformation, OdoPoses[i]).t, OdoPoses[i].t)) > 9
\* Previous pose with the previous translation step added in world coordinates.
OdoWorldStep(i) ==
    IF i >= 2
    THEN MatMul(Pose(0, VSub(OdoPoses[i].t, OdoPoses[i - 1].t)), OdoPoses[i])
    ELSE OdoPoses[i]
\* Previous pose right-multiplied by the previous translation step.
OdoBodyStep(i) ==
    IF i >= 2
    THEN MatMul(OdoPoses[i], Pose(0, VSub(OdoPoses[i].t, OdoPoses[i - 1].t)))
    ELSE OdoPoses[i]

\* C1: for every registered frame i >= 1, either the translation step from
\* pose i-1 to pose i is at most 0.75 m, or the fitness reported for i is 0
\* and pose i is the motion-model pose.
C1_StepBoundedOrFallback ==
    \A i \in 1..(OdoN - 1) :
        \/ OdoStep2(i) <= 9
        \/ OdoFit(i) = 0 /\ OdoPoses[i + 1] = OdoWorldStep(i)

\* A rejected candidate at a frame >= 2 whose fallback pose moved, next to an
\* accepted frame.
C1_Witness ==
    \E i \in 2..(OdoN - 1) :
        /\ OdoRejected(i) /\ OdoFit(i) = 0
        /\ OdoStep2(i) > 0
        /\ ~OdoRejected(i - 1) /\ OdoFit(i - 1) > 0

\* C2 as stated: a rejected frame gets pose_{i-1} * translate(t_{i-1} - t_{i-2})
\* (right-multiplication) when two poses exist, pose_{i-1} otherwise, with
\* fitness 0.
C2_FallbackRightMultiplied ==
    \A i \in 1..(OdoN - 1) :
        OdoRejected(i) => OdoFit(i) = 0 /\ OdoPoses[i + 1] = OdoBodyStep(i)

\* C2 amended: a rejected frame keeps the rotation of pose_{i-1} and adds the
\* previous translation step in world coordinates, translate(t_{i-1} -
\* t_{i-2}) * pose_{i-1}; with fewer than two poses it is pose_{i-1}; the
\* fitness is 0.
C2_FallbackWorldStep ==
    \A i \in 1..(OdoN - 1) :
        OdoRejected(i) =>
            /\ OdoFit(i) = 0
            /\ OdoPoses[i + 1] = OdoWorldStep(i)
            /\ OdoPoses[i + 1].r = OdoPoses[i].r

\* A rejected frame whose previous pose is rotated and was moving.
C2_Witness ==
    \E i \in 2..(OdoN - 1) :
        /\ OdoRejected(i)
        /\ OdoPoses[i].r # 0
        /\ OdoPoses[i].t # OdoPoses[i - 1].t

\* Pointcloud events among the first k events of the operator.
OpPointcloudEvents(k) == { e \in 1..k : op_events[e].id = "pointcloud" }

\* C3: an empty frame arriving after a registered frame still yields a pose
\* for its index, equal to the previous pose, with fitness 0.
C3_EmptyFrameYieldsPose ==
    pc = "op" =>
    \A k \in 1..Len(op_events) :
        LET n == Cardinality(OpPointcloudEvents(k))
        IN  (op_events[k].id = "pointcloud" /\ op_events[k].value = <<>> /\ n >= 2
             /\ \A e \in OpPointcloudEvents(k - 1) : op_events[e].value # <<>>)
            => /\ Len(op_out) >= 2 * n
               /\ op_out[2 * n - 1].value = op_out[2 * n - 3].value
               /\ op_out[2 * n].value[2] = 0

\* C4 as stated: when ICP raises at frame i the frame still gets a pose with
\* fitness 0 and the run goes on.
C4_RaiseFallsBack ==
    \A i \in 1..Len(icp_log) :
        Raised(icp_log[i]) =>
            /\ OdoN >= i + 1
            /\ pc # "exit"
            /\ op_alive

\* C4 amended: when ICP raises at frame i nothing catches it inside the
\* odometry: frame i gets no pose and no fitness, no later frame is
\* registered, run_pipeline exits with status 1 and the streaming operator
\* stops taking events.
C4_RaiseAborts ==
    \A i \in 1..Len(icp_log) :
        Raised(icp_log[i]) =>
            /\ i = Len(icp_log)
            /\ OdoN = i
            /\ IF pc = "op"
               THEN ~op_alive /\ Len(op_out) = 2 * i /\ Len(op_poses) = i
               ELSE pc = "exit" /\ exit_code = 1 /\ Len(fits) = i - 1

\* ICP raised at a frame >= 2 of a pipeline run.
C4_Witness ==
    /\ InPipeline
    /\ Len(icp_log) >= 2
    /\ Raised(icp_log[Len(icp_log)])

\* First non-empty pointcloud delivered to the operator.
OpFirstCloud ==
    LET ks == { k \in 1..Len(op_events) :
                  op_events[k].id = "pointcloud" /\ op_events[k].value # <<>> }
    IN  op_events[CHOOSE k \in ks : \A m \in ks : k <= m].value

\* ICP calls that returned.
IcpReturned == Cardinality({ i \in 1..Len(icp_log) : ~Raised(icp_log[i]) })

\* C5: the first registered frame has the identity pose, is reported as
\* (I, 1.0, 0.0) without an ICP call, its points are world cloud 0 unchanged,
\* and pose 0 stays the identity while later frames are registered.
C5_FirstFrameAnchor ==
    /\ IcpReturned = (IF OdoN = 0 THEN 0 ELSE OdoN - 1)
    /\ (pc = "op" /\ op_frame_count >= 1) =>
           /\ op_poses[1] = Eye4
           /\ op_out[1] = Output("pose", Eye4)
           /\ op_out[2] = Output("odometry_status", <<0, 10, 0>>)
           /\ op_world_clouds[1] = OpFirstCloud
    /\ (InPipeline /\ Len(poses) >= 1) =>
           /\ poses[1] = Eye4
           /\ world_clouds[1] = point_clouds[1]

\* Two more frames registered after the first, away from the origin.
C5_Witness ==
    /\ pc = "op"
    /\ op_frame_count >= 3
    /\ op_poses[3] # Eye4
    /\ op_world_clouds[3] # OpFirstCloud

----------------------------------------------------------------------------
\* Properties of the pose graph.

BetweenIdx(g) == { k \in 1..Len(g) : g[k].kind = "between" }
BetweenKeys(g) == UNION { {g[k].from, g[k].to} : k \in BetweenIdx(g) }
PriorIds(g) ==
    LET IsPrior(f) == f.kind = "prior"
        ps == SelectSeq(g, IsPrior)
    IN  [k \in 1..Len(ps) |-> ps[k].from]
FMin(f) == IF f.from <= f.to THEN f.from ELSE f.to
Count(q, x) == Cardinality({ k \in 1..Len(q) : q[k] = x })

\* C6 as stated: in every state of the optimizer, inside build_from_odometry
\* included, every vertex of a between factor has an initial estimate.
C6_EdgeVerticesEstimatedAlways ==
    BetweenKeys(graph) \subseteq DOMAIN initial_estimates

\* C6 amended: when build_from_odometry reaches its optimize call, every
\* vertex of the chain factors it inserted has an initial estimate; and in a
\* pipeline run, from that optimize call on (loop closures included), every
\* vertex of a between factor has one.  Inside the chain loop factor (i-1, i)
\* precedes the estimate of i, and the add_* methods check nothing.
C6_EdgeVerticesEstimatedAtOptimize ==
    /\ bpc = "optimize" =>
         \A k \in BetweenIdx(graph) :
             k > Len(graph) - (Len(odom_poses) - 1)
                 => {graph[k].from, graph[k].to} \subseteq DOMAIN initial_estimates
    /\ (InPipeline /\ bpc \in {"optimize", "idle"}) =>
         BetweenKeys(graph) \subseteq DOMAIN initial_estimates

\* A pipeline graph with a chain and a loop closure, optimized.
C6_Witness ==
    /\ pc = "map"
    /\ n_odom_factors >= 2
    /\ n_loop_factors >= 1
    /\ opt_status = "ok"

\* C7 as stated: after build_from_odometry calls (any number), loop closures
\* and a final optimize, the graph has exactly one prior, on vertex 0.
C7_OnePriorAfterOptimize ==
    /\ (/\ Len(call_log) >= 1
        /\ call_log[Len(call_log)] = "optimize"
        /\ bpc = "idle"
        /\ SeqRange(call_log) \subseteq {"build_from_odometry", "add_loop_closure", "optimize"}
        /\ "build_from_odometry" \in SeqRange(call_log))
       => PriorIds(graph) = <<0>>
    /\ (pc = "map" /\ Len(odom_poses) > 0) => PriorIds(graph) = <<0>>

\* C7 amended: a graph built by the single build_from_odometry call of a
\* pipeline run has exactly one prior, on vertex 0, whatever loop closures
\* and re-optimization follow; add_prior is unguarded, so without direct
\* add_prior calls the graph has one prior on vertex 0 per
\* build_from_odometry call that was given poses.
C7_OnePriorPerBuild ==
    /\ (InPipeline /\ Len(odom_poses) > 0) => PriorIds(graph) = <<0>>
    /\ (pc = "api" /\ "add_prior" \notin SeqRange(call_log)) =>
         /\ Len(PriorIds(graph)) = Count(call_log, "build_from_odometry")
         /\ \A k \in 1..Len(PriorIds(graph)) : PriorIds(graph)[k] = 0

\* A pipeline graph re-optimized after loop closures were added.
C7_Witness ==
    /\ pc = "map"
    /\ n_loop_factors >= 1
    /\ opt_status = "ok"
    /\ Len(graph) >= 3

\* C8 as stated: over the whole pipeline run (with a positive G_min) no
\* between factor is inserted after a between factor with a larger min(i, j).
C8_FactorsInMinOrder ==
    (InPipeline /\ min_frame_gap >= 1) =>
    \A a, b \in BetweenIdx(graph) :
        a < b => FMin(graph[a]) <= FMin(graph[b])

\* C8 amended: the odometry chain is inserted first, in strictly increasing
\* order of its smaller vertex index; the loop closures follow, among
\* themselves in non-decreasing order of id_from (their smaller index when
\* G_min >= 0), so a loop factor may follow chain factors of larger index.
C8_ChainThenLoopsInOrder ==
    InPipeline =>
    \A a, b \in BetweenIdx(graph) :
        a < b =>
            /\ graph[a].noise = "loop" => graph[b].noise = "loop"
            /\ (graph[a].noise = "odom" /\ graph[b].noise = "odom")
                   => FMin(graph[a]) < FMin(graph[b])
            /\ (graph[a].noise = "loop" /\ graph[b].noise = "loop")
                   => /\ graph[a].from <= graph[b].from
                      /\ min_frame_gap >= 0 => graph[a].from = FMin(graph[a])

\* A chain of two factors followed by loop closures from two vertices.
C8_Witness ==
    /\ pc = "map"
    /\ n_odom_factors >= 2
    /\ \E a, b \in BetweenIdx(graph) :
         /\ graph[a].noise = "loop" /\ graph[b].noise = "loop"
         /\ graph[a].from < graph[b].from

----------------------------------------------------------------------------
\* Properties of the loop detector.

CandCalled == pc = "ld_done" \/ (pc = "map" /\ args_loop_closure)
LdDist2(i, j) == Norm2(VSub(ld_poses[i].t, ld_poses[j].t))
LdNear(i, j) == LdDist2(i, j) < distance_threshold * distance_threshold

\* C9 as stated: the candidates are exactly the pairs with j > i,
\* j - i >= G_min and distance below D_max, and none has j <= i.
C9_CandidatesForward ==
    CandCalled =>
        /\ SeqRange(candidates) =
             { c \in (DOMAIN ld_poses) \X (DOMAIN ld_poses) :
                 c[2] > c[1] /\ c[2] - c[1] >= min_frame_gap /\ LdNear(c[1], c[2]) }
        /\ \A k \in 1..Len(candidates) : candidates[k][2] > candidates[k][1]

\* C9 amended: the candidates are exactly the pairs with j - i >= G_min and
\* distance strictly below D_max, each once; j > i holds for every returned
\* pair when G_min >= 1 (with G_min <= 0 pairs with j <= i are returned).
C9_CandidatesByGap ==
    CandCalled =>
        /\ SeqRange(candidates) =
             { c \in (DOMAIN ld_poses) \X (DOMAIN ld_poses) :
                 c[2] - c[1] >= min_frame_gap /\ LdNear(c[1], c[2]) }
        /\ Cardinality(SeqRange(candidates)) = Len(candidates)
        /\ min_frame_gap >= 1 =>
             \A k \in 1..Len(candidates) : candidates[k][2] > candidates[k][1]

\* A positive gap, a returned pair, and a pair left out for lying exactly at
\* D_max.
C9_Witness ==
    /\ pc = "ld_done"
    /\ min_frame_gap >= 1
    /\ Len(candidates) >= 1
    /\ \E i, j \in DOMAIN ld_poses :
         /\ j - i >= min_frame_gap
         /\ LdDist2(i, j) = distance_threshold * distance_threshold
         /\ <<i, j>> \notin SeqRange(candidates)

VerifyCalled == CandCalled /\ DOMAIN icp_fit = SeqRange(candidates)
LoopAccepted(c) ==
    /\ c[1] \in DOMAIN ld_clouds
    /\ c[2] \in DOMAIN ld_clouds
    /\ icp_fit[c].fitness > icp_fitness_threshold

\* C10: detect_and_verify returns a candidate, with the ICP transform, iff
\* both clouds are available and the fitness is strictly above f_loop; in a
\* pipeline run the loop factors of the graph are exactly the returned loops.
C10_VerifiedIffAboveThreshold ==
    /\ VerifyCalled =>
         LET ok == SelectSeq(candidates, LoopAccepted)
         IN  /\ Len(verified_loops) = Len(ok)
             /\ \A k \in 1..Len(ok) :
                  verified_loops[k] = <<ok[k][1], ok[k][2], icp_fit[ok[k]].transformation>>
    /\ InPipeline =>
         /\ \A k \in BetweenIdx(graph) :
              graph[k].noise = "loop" =>
                  /\ <<graph[k].from, graph[k].to>> \in SeqRange(candidates)
                  /\ LoopAccepted(<<graph[k].from, graph[k].to>>)
         /\ n_loop_factors = Len(verified_loops)
         /\ Cardinality({ k \in BetweenIdx(graph) : graph[k].noise = "loop" }) = n_loop_factors

\* A pipeline run where one candidate had fitness exactly f_loop and was
\* dropped and another was accepted and added.
C10_Witness ==
    /\ pc = "map"
    /\ n_loop_factors >= 1
    /\ \E c \in SeqRange(candidates) :
         /\ icp_fit[c].fitness = icp_fitness_threshold
         /\ \A k \in 1..Len(verified_loops) : <<verified_loops[k][1], verified_loops[k][2]>> # c

----------------------------------------------------------------------------
\* Properties of the map builder.

\* A step that runs the final processing of the map: build_map's call of
\* finalize_map in the pipeline, _save_map in the operator.
FinalizeStep ==
    \/ pc = "map" /\ pc' # "map"
    \/ pc = "mb" /\ ~map_saved /\ map_saved'

DistinctVoxels(gm, v) ==
    \A a, b \in 1..Len(gm) : a # b => Voxel(gm[a], v) # Voxel(gm[b], v)

\* The voxel size finalize uses: map_voxel_size in MapBuilder, voxel_size in
\* the operator.
FinalVoxelSize == IF pc = "mb" THEN voxel_size ELSE map_voxel_size

\* C11: after finalize (finalize_map at the end of build_map, _save_map in
\* the operator) the global map has no more points than before the call
\* and, with a positive v_map, no two retained points lie in the same v_map
\* voxel.
C11_FinalizeShrinksToVoxels ==
    [][FinalizeStep =>
          /\ Len(global_map') <= Len(global_map_pre_finalize')
          /\ FinalVoxelSize' > 0 => DistinctVoxels(global_map', FinalVoxelSize')]_vars

\* A finalized map in which voxel downsampling merged points and more than
\* one voxel is left.
C11_Witness ==
    /\ pc \in {"save", "mb"}
    /\ FinalVoxelSize > 0
    /\ (pc = "mb" => map_saved)
    /\ Len(global_map) >= 2
    /\ Len(global_map) < Len(global_map_pre_finalize)

----------------------------------------------------------------------------
\* Properties of the waypoint extractors.

\* The extractor has produced its waypoint list: extract returned (called
\* directly or by the pipeline), or the operator extracted on map_complete
\* or on STOP.
WpBatchDone == pc = "wp_done" \/ (pc = "exit" /\ "waypoints.txt" \in files)
WoDone == pc = "wo" /\ "waypoints.txt" \in files
WpDone == WpBatchDone \/ WoDone

\* The 2D trajectory the waypoints were extracted from.
WpTrajectory ==
    IF pc = "wo"
    THEN IF Len(wo_out) >= 2 THEN wo_out[2].value
         ELSE [k \in 1..Len(wo_poses) |-> XY(wo_poses[k].t)]
    ELSE LET ids == SortedSeq(DOMAIN optimized_poses)
         IN  [k \in 1..Len(ids) |-> XY(optimized_poses[ids[k]].t)]

SMin == IF pc = "wo" THEN min_spacing ELSE min_distance
Tolerance == IF pc = "wo" THEN epsilon ELSE simplify_tolerance
ZBandOff == pc = "wo" \/ z_threshold = <<>>

\* C12 as stated: with simplification off, consecutive waypoints are at
\* least s_min apart, with or without the Z-band filter, in extract and in
\* the operator.
C12_ConsecutiveSpacing ==
    (WpDone /\ ~simplify) =>
        \A k \in 1..(Len(waypoints) - 1) :
            XYDist2(waypoints[k], waypoints[k + 1]) >= SMin * SMin

Collinear(q) ==
    \A k \in 1..Len(q) : Cross2(q[k], q[1], Last(q)) = 0
EquallySpaced(q) ==
    \A k \in 1..(Len(q) - 2) :
        <<q[k + 1][1] - q[k][1], q[k + 1][2] - q[k][2]>> =
        <<q[k + 2][1] - q[k + 1][1], q[k + 2][2] - q[k + 1][2]>>

\* C13 as stated: for a non-empty trajectory with the Z-band filter off the
\* waypoint list starts with the first pose's 2D projection and ends with the
\* last pose's, and a straight equally spaced trajectory simplified by
\* Douglas-Peucker yields exactly its two endpoints.
C13_EndpointsIncluded ==
    (WpDone /\ ZBandOff /\ Len(WpTrajectory) > 0) =>
        /\ Len(waypoints) > 0
        /\ waypoints[1] = WpTrajectory[1]
        /\ Last(waypoints) = Last(WpTrajectory)
        /\ (simplify /\ Len(WpTrajectory) >= 2 /\ WpTrajectory[1] # Last(WpTrajectory)
              /\ Collinear(WpTrajectory) /\ EquallySpaced(WpTrajectory))
             => waypoints = <<WpTrajectory[1], Last(WpTrajectory)>>

\* C14 as stated: extract returns a non-empty list iff the pose dictionary
\* is non-empty, for every configuration.
C14_NonEmptyIffInput ==
    WpBatchDone => (Len(waypoints) > 0 <=> DOMAIN optimized_poses # {})

\* C15 as stated: no two consecutive waypoints are the same 2D point.
C15_ConsecutiveDistinct ==
    WpDone => \A k \in 1..(Len(waypoints) - 1) : waypoints[k] # waypoints[k + 1]

\* The polyline handed to _douglas_peucker by the direct call.
DpPoints == WpTrajectory

\* C16 as stated: with tolerance 0 Douglas-Peucker returns every input
\* point, in order (the index list 0..n-1; in the operator, the input
\* polyline itself).
C16_ZeroToleranceIdentity ==
    /\ (pc = "dp_done" /\ simplify_tolerance = 0) =>
           dp_indices = [k \in 1..Len(DpPoints) |-> k - 1]
    /\ (WoDone /\ simplify /\ epsilon = 0) => waypoints = WpTrajectory

\* C16 amended: with tolerance 0 the result starts with index 0, ends with
\* index n-1 and is strictly increasing; the points dropped between two
\* consecutive kept points a and b lie exactly on the line through a and b,
\* or a and b are the same point (a closed span is reduced to its two
\* ends).  The operator's version returns the points at these indices.
C16_ZeroToleranceDropsOnlyCollinear ==
    /\ (pc = "dp_done" /\ simplify_tolerance = 0) =>
         LET n == Len(DpPoints)
             m == Len(dp_indices)
         IN  /\ n = 0 => m = 0
             /\ n > 0 => (m > 0 /\ dp_indices[1] = 0 /\ dp_indices[m] = n - 1)
             /\ \A k \in 1..(m - 1) :
                  /\ dp_indices[k] < dp_indices[k + 1]
                  /\ LET a == DpPoints[dp_indices[k] + 1]
                         b == DpPoints[dp_indices[k + 1] + 1]
                     IN  \A j \in (dp_indices[k] + 2)..dp_indices[k + 1] :
                             a = b \/ Cross2(DpPoints[j], a, b) = 0
    /\ (WoDone /\ simplify) =>
         LET idx == douglas_peucker(WpTrajectory, epsilon)
         IN  waypoints = [k \in 1..Len(idx) |-> WpTrajectory[idx[k] + 1]]

\* Douglas-Peucker at tolerance 0 dropped a collinear interior point of an
\* open polyline, and kept an interior point of another.
C16_Witness ==
    /\ pc = "dp_done"
    /\ simplify_tolerance = 0
    /\ Len(DpPoints) = 3
    /\ DpPoints[1] # DpPoints[3]
    /\ Len(dp_indices) = 2

----------------------------------------------------------------------------
\* Properties of the pipeline driver and of the streaming operators.

\* The configuration is invalid: a negative voxel size.
ConfigInvalid == map_voxel_size < 0
\* A stage of the pipeline failed: the ICP solver or the pose-graph solve
\* raised.
PipelineFailed ==
    \/ Len(icp_log) > 0 /\ Raised(Last(icp_log))
    \/ opt_status = "raised"

\* C17 as stated: run_pipeline ends with 0 on success, 1 when no frame is
\* found, 2 when the configuration is invalid and 3 on a pipeline failure,
\* and an invalid configuration never produces artifacts.
C17_ExitCodes ==
    (InPipeline /\ pc = "exit") =>
        /\ exit_code = IF ConfigInvalid THEN 2
                       ELSE IF Len(point_clouds) = 0 THEN 1
                       ELSE IF PipelineFailed THEN 3
                       ELSE 0
        /\ ConfigInvalid => files = {}

MapFiles == {"map.ply", "map.pcd"}
WaypointFiles == {"waypoints.txt", "trajectory.txt"}

\* C18 as stated: a STOP delivered before the sequence completed (before
\* sequence_complete reached the map builder, before map_complete reached
\* the waypoint extractor) leaves no artifact behind.
C18_NoArtifactsAfterCancel ==
    /\ (pc = "mb" /\ ~mb_alive /\ ~mb_seq_done) => files = {}
    /\ (pc = "wo" /\ ~wo_alive /\ ~waypoints_extracted) => files = {}

\* C18 amended: on STOP the map builder finalizes and writes map.ply and
\* map.pcd unless the map was saved before or no frame was added, and the
\* waypoint extractor writes waypoints.txt and trajectory.txt unless it
\* extracted before or holds no pose; a stopped operator has written its
\* files exactly when it saved earlier or had a frame (a pose) at STOP.
C18_StopWritesPartialResults ==
    [][/\ (pc = "mb" /\ mb_alive /\ ~mb_alive') =>
             /\ (MapFiles \subseteq files' <=> (map_saved \/ frame_count > 0))
             /\ (~map_saved /\ frame_count > 0) => map_saved'
       /\ (pc = "wo" /\ wo_alive /\ ~wo_alive') =>
             (WaypointFiles \subseteq files' <=> (waypoints_extracted \/ Len(wo_poses) > 0))]_vars

\* The map builder was stopped before sequence_complete, with a frame in
\* the map, and the map files exist.
C18_Witness ==
    /\ pc = "mb"
    /\ ~mb_alive
    /\ ~mb_seq_done
    /\ frame_count > 0
    /\ mb_nc < Len(mb_frames)
    /\ MapFiles \subseteq files

\* C19 as stated: the odometry retains at most k (window size) per-frame
\* world-frame point buffers.
C19_WindowBounded ==
    /\ Len(world_clouds) <= window_size
    /\ Len(op_world_clouds) <= window_size

\* Every input of the map builder has been delivered.
MbAllDelivered == mb_nc = Len(mb_frames) /\ mb_np = Len(MbNonEmpty)

\* C20 as stated: frames are added in trajectory order, each cloud with the
\* pose of its own frame, and no frame is lost: in build_map every frame
\* that has a pose is added, in the operator every frame that has a pose
\* (every non-empty frame) is added once all inputs were delivered.
C20_FramesPairedInOrder ==
    /\ \A k \in 1..Len(added) : added[k].cloud = added[k].pose
    /\ \A a, b \in 1..Len(added) : a < b => added[a].cloud < added[b].cloud
    /\ (pc = "mb" /\ MbAllDelivered) => Len(added) = Len(MbNonEmpty)
    /\ pc = "save" =>
          { added[k].cloud : k \in 1..Len(added) } =
              DOMAIN optimized_poses \cap (0..(Len(point_clouds) - 1))

----------------------------------------------------------------------------
\* Streaming odometry outputs.

\* The non-empty frames delivered to the operator whose registration
\* returned (a registration that raises ends the operator, see C4).
OpRegistered ==
    Cardinality({ e \in 1..Len(op_events) :
                    op_events[e].id = "pointcloud" /\ op_events[e].value # <<>> })
      - Cardinality({ i \in 1..Len(icp_log) : Raised(icp_log[i]) })

----------------------------------------------------------------------------
\* Preprocessing of a frame.

PpDone == pc = "pp_done"
\* The range gate and the ground cut as stated: keep r_min <= norm <= r_max,
\* drop z < z_ground.
InRangeGate(p) ==
    /\ Norm2(p) >= loader.min_range * loader.min_range
    /\ Norm2(p) <= loader.max_range * loader.max_range
BelowGround(p) == p[3] < loader.ground_threshold
PpGated == SelectSeq(pp_points, InRangeGate)
PpCut == IF loader.remove_ground THEN SelectSeq(PpGated, LAMBDA p : ~BelowGround(p)) ELSE PpGated
PpVoxelized == IF loader.voxel_size > 0 THEN voxel_down_sample(PpCut, loader.voxel_size) ELSE PpCut

\* C22 as stated: preprocess applies the range gate (keeping exactly the
\* points with r_min <= norm <= r_max), then the ground cut if enabled
\* (dropping exactly the points with z < z_ground), then the voxel
\* downsampling, and an empty frame gives an empty output.
C22_PreprocessOrder ==
    PpDone =>
        /\ pp_result = PpVoxelized
        /\ pp_points = <<>> => pp_result = <<>>

----------------------------------------------------------------------------
\* Douglas-Peucker.

DpDone == pc = "dp" /\ dp_status = "done"
DpResult == dp_ret[1]
DpKept == { DpResult[k] : k \in 1..Len(DpResult) }
\* p is within the tolerance of the chord from s to e (of the point s when
\* the chord has no length).
WithinTolerance(p, s, e, tol) ==
    IF s = e THEN XYDist2(p, s) <= tol * tol
    ELSE Cross2(p, s, e) <= tol * tol * XYDist2(s, e)
\* The retained indices around a dropped index d.
BracketLo(d) == CHOOSE a \in DpKept : a < d /\ \A x \in DpKept : x < d => x <= a
BracketHi(d) == CHOOSE b \in DpKept : b > d /\ \A x \in DpKept : x > d => x >= b

\* C23 as stated: for every polyline, closed ones included, each point
\* _douglas_peucker drops lies within the tolerance of the chord between
\* the two retained points that bracket it.
C23_DroppedWithinTolerance ==
    (DpDone /\ dp_tolerance >= 0) =>
        \A d \in (0..(Len(dp_points) - 1)) \ DpKept :
            WithinTolerance(dp_points[d + 1], dp_points[BracketLo(d) + 1],
                            dp_points[BracketHi(d) + 1], dp_tolerance)

\* C30 as stated: _douglas_peucker terminates for every polyline and every
\* tolerance, negative ones included: every recursive call is on a strictly
\* shorter list than its caller's, the recursion limit is never hit, and
\* the indices returned increase strictly from 0 to n-1.
C30_CallsShrink ==
    pc = "dp" =>
        /\ \A k \in 2..Len(dp_stack) :
              Len(dp_stack[k].points) < Len(dp_stack[k - 1].points)
        /\ dp_status # "recursion_error"
        /\ (dp_status = "done" /\ Len(dp_points) > 0) =>
              /\ DpResult[1] = 0
              /\ DpResult[Len(DpResult)] = Len(dp_points) - 1
              /\ \A k \in 1..(Len(DpResult) - 1) : DpResult[k] < DpResult[k + 1]

----------------------------------------------------------------------------
\* Loop closure convention.

LcDone == pc = "lc_done"
\* The relative pose of a between factor (i, j): pose_i^-1 * pose_j.
Between(i, j) == MatMul(MatInv(ld_poses[i]), ld_poses[j])
\* (pose_i^-1 * pose_j) * T^-1: the identity when the residual is zero.
LoopResidual(i, j, T) == MatMul(Between(i, j), MatInv(T))
LoopFactors == SelectSeq(graph, LAMBDA f : f.kind = "between")

\* C24 as stated: for a verified loop (i, j) the ICP seed, the transform
\* ICP returns with cloud i as source and cloud j as target, and the T_ij
\* handed to add_loop_closure(i, j, T_ij) all equal pose_i^-1 * pose_j, so
\* the loop factor's residual is zero at the true poses.
C24_OneConvention ==
    LcDone =>
        /\ Len(LoopFactors) = Len(verified_loops)
        /\ \A k \in 1..Len(verified_loops) :
              LET i == verified_loops[k][1]
                  j == verified_loops[k][2]
                  T == verified_loops[k][3]
              IN  /\ loop_seeds[<<i, j>>] = Between(i, j)
                  /\ T = Between(i, j)
                  /\ LoopFactors[k].from = i /\ LoopFactors[k].to = j
                  /\ LoopFactors[k].rel = T
                  /\ LoopResidual(i, j, LoopFactors[k].rel) = Eye4

----------------------------------------------------------------------------
\* Decimation of the local map.

\* The target was built as a local map (run_on_sequence registers frame 1
\* against the whole of frame 0 instead).
LocalMapBuilt == pc = "dec_done" /\ (dec_kind = "op" \/ Len(dec_sizes) > 1)
RECURSIVE SumSeq(_)
SumSeq(q) == IF q = <<>> THEN 0 ELSE q[1] + SumSeq(Tail(q))

\* C25 as stated: when the local-map target is built each frame of the
\* window contributes at most 5000 points after decimation, whatever its
\* size, so the target holds at most 5000 * k points before voxelization.
C25_DecimationCap ==
    LocalMapBuilt =>
        /\ \A m \in 1..Len(dec_target) : dec_target[m] <= DecimationCap
        /\ SumSeq(dec_target) <= DecimationCap * window_size

----------------------------------------------------------------------------
\* The source operator.

\* What the source has sent after t ticks: one frame per tick, then the
\* completion signal.
RECURSIVE SrcExpected(_)
SrcExpected(t) ==
    IF t = 0 THEN <<>>
    ELSE IF t <= Len(pcd_files)
    THEN SrcExpected(t - 1) \o
             << Output("pointcloud", pcd_files[t]),
                Output("frame_info", <<t - 1, Len(pcd_files), Len(pcd_files[t])>>) >>
    ELSE IF t = Len(pcd_files) + 1
    THEN Append(SrcExpected(t - 1), Output("sequence_complete", <<Len(pcd_files)>>))
    ELSE SrcExpected(t - 1)

\* C27: the source publishes each frame exactly once, in ascending file
\* order, one frame per tick with the pointcloud before its frame_info, and
\* sequence_complete exactly once, only after all frames were published and
\* carrying the number of frames; further ticks emit nothing.
C27_SourcePublishesInOrder ==
    pc = "src" =>
        /\ src_out = SrcExpected(src_ticks)
        /\ Cardinality({ k \in 1..Len(src_out) : src_out[k].id = "sequence_complete" }) <= 1
        /\ sequence_complete_sent => current_frame = Len(pcd_files)

\* All frames and the completion signal were published and a further tick
\* was received.
C27_Witness ==
    /\ pc = "src"
    /\ Len(pcd_files) = MaxFrames
    /\ src_ticks = MaxFrames + 2
    /\ sequence_complete_sent
    /\ Len(src_out) = 2 * MaxFrames + 1

----------------------------------------------------------------------------
\* Completion of the streaming map.

MapCompleteSent == \E k \in 1..Len(mb_out) : mb_out[k].id = "map_complete"

\* C26 as stated: once the source has published its frames and its single
\* sequence_complete, the map builder eventually saves the map and emits
\* map_complete, under every interleaving of the pose and sequence_complete
\* events and without a STOP; map_complete is never emitted before the map
\* was saved, and the map is saved at most once.  The eventual completion
\* is required of the runs whose frames are all non-empty, the frames the
\* odometry answers with a pose.
C26_MapEventuallyComplete ==
    /\ [](pc = "mb" => (MapCompleteSent => map_saved))
    /\ [][(pc = "mb" /\ map_saved) =>
            (map_saved' /\ files' = files /\
                global_map_pre_finalize' = global_map_pre_finalize)]_vars
    /\ (pc = "mb" /\ mb_alive /\ Len(MbNonEmpty) = Len(mb_frames))
           ~> (MapCompleteSent \/ ~mb_alive)

----------------------------------------------------------------------------
\* Boundedness of the odometry steps.

\* (3 * expected_motion)^2
StepLimit2 == (3 * expected_motion) * (3 * expected_motion)

\* C28: every consecutive translation step of the odometry, the steps
\* produced by the motion-model fallback and by runs of consecutive
\* fallbacks included, is at most 3 * mu (0.75 m), for every sequence of
\* ICP results.
C28_EveryStepBounded ==
    \A i \in 1..(OdoN - 1) : OdoStep2(i) <= StepLimit2

\* A fallback that repeated an accepted step of exactly 0.75 m.
C28_Witness ==
    \E i \in 2..(OdoN - 1) :
        /\ OdoRejected(i)
        /\ ~OdoRejected(i - 1)
        /\ OdoStep2(i - 1) = StepLimit2
        /\ OdoStep2(i) = StepLimit2

----------------------------------------------------------------------------
\* Streaming and batch odometry side by side.

RefEmittedPoses == [k \in 1..op_frame_count |-> op_out[2 * k - 1].value]
RefEmittedFitness(i) == op_out[2 * i + 2].value[2]

\* C29: fed the same non-empty frames and the same ICP corrections, the
\* operator (one _register_frame call per frame) and run_on_sequence produce
\* the same pose sequence and the same fitness values, reject at the same
\* threshold (0.75 m equals 3 * expected step) and use the same window
\* frames as target at every index.
C29_StreamingEqualsBatch ==
    pc = "ref" =>
        /\ RefEmittedPoses = poses
        /\ op_frame_count > 0 => op_poses = poses
        /\ \A i \in 1..(Len(poses) - 1) : RefEmittedFitness(i) = fits[i]
        /\ op_world_clouds = world_clouds
        /\ op_targets = batch_targets
        /\ OpJumpLimit = 3 * expected_motion

\* Three frames registered by both with a window of one frame, the last
\* one through the motion model.
C29_Witness ==
    /\ pc = "ref"
    /\ window_size = 1
    /\ op_frame_count = MaxFrames
    /\ Len(poses) = MaxFrames
    /\ fits[MaxFrames - 1] = 0
    /\ poses[MaxFrames] # poses[MaxFrames - 1]
    /\ op_targets[MaxFrames - 1] = {MaxFrames - 2}

====
